---- MODULE Spec2Model ----
(***************************************************************************)
(* Model of DAnalysisAPI, the streaming feed client of the D-Analysis      *)
(* panel: one WebSocket transport, a registry (Map) of callbacks shared by *)
(* tick subscriptions and pending history requests, and a bounded linear   *)
(* reconnection policy.  Time is counted in milliseconds and advances in   *)
(* steps of the base reconnect delay; every timer of the class             *)
(* (reconnect: delay * attempt, history request: 10000) is a multiple.     *)
(* The components that use the client follow: the digit panel (parseFloat, *)
(* extractDigit, the tick window, its settings and calculateDigitStats),   *)
(* the trade indicators (the tick effect and calculateIsWinning) and the   *)
(* profit and loss panel (the total effect).                               *)
(***************************************************************************)
EXTENDS Integers, Sequences, FiniteSets, TLC

(* ------------------------------ bounds -------------------------------- *)

\* getTicksHistory requests sent in one behaviour of SpecFetch
MaxCalls == 2
\* getTicksHistory requests sent in one behaviour of Spec, which has the tick API too
MaxMixedCalls == 1
\* WebSocket objects that may be alive (connecting or open) at once
MaxLive == 2
\* tick messages the feed sends ahead of their arrival in one behaviour of SpecStream
MaxTicks == 2
\* connect() calls by a caller in one behaviour of SpecManual
MaxConnects == 1
\* characters of a quote the feed sends to the digit panel
MaxQuoteLen == 3
\* ticks the window of the digit panel grows to in SpecDigit
MaxWindow == 1
\* ticks a live tick leaves in the window in SpecPanel
MaxPanelTicks == 4
\* positions the position manager tracks in one behaviour of SpecPnl
MaxPositions == 2

\* the index select is used while fewer runs of the subscribe effect than this have started
MaxEffectRuns == 2

\* the ticks of the window of the panel with its index select
MaxSelectTicks == 2

\* times the stake is raised above its initial value in SpecTrade
MaxStakeSteps == 1

\* proposal fetches that wait for their answer at once in SpecTrade
MaxFetches == 2

\* trade requests that wait for their answer at once in SpecTrade
MaxTrades == 2

(* ------------------------- program constants -------------------------- *)

maxReconnectAttempts == 5
reconnectDelay == 1000
HistoryTimeout == 10000

\* the clock advances by the base delay: all timer delays are multiples of it
TimeStep == reconnectDelay

(* ------------------------------ inputs -------------------------------- *)

\* symbols passed to getTicksHistory: two feed symbols and two that fail validation
Symbols == {"R_10", "R_25", "na", ""}
\* tick callbacks passed to subscribeToTicks
Callbacks == {"cbA", "cbB"}

SockIds == 1..MaxLive

\* the messages of the three rejections of the class
ErrNotConnected == "WebSocket not connected"
ErrInvalidSymbol == "Invalid symbol for tick history"
ErrTimeout == "Request timeout"

VARIABLES
    sock,               \* state of each WebSocket object: FREE (closed or never made), CONNECTING, OPEN
    ws,                 \* this.ws: the socket it refers to (also once that socket is closed), 0 when null
    reconnectAttempts,  \* this.reconnectAttempts
    reconnectTimers,    \* pending setTimeout(connect) timers: remaining ms of each
    subscriptions,      \* this.subscriptions: the Map, as a set of <<key, callback>> entries
    calls,              \* the getTicksHistory calls whose request was sent: symbol, promise outcome, data, timer
    responses,          \* history responses in flight: <<socket, call>>
    serverSubs,         \* tick streams the feed sends: <<socket, symbol>>
    delayLog,           \* the delays given to setTimeout by reconnect() since the last onopen
    latest,             \* per symbol, the callback of the latest subscribeToTicks not yet unsubscribed
    last,               \* the handler that ran last and what it did
    handles,            \* the symbols whose subscription id subscribeToTicks has returned to a caller
    wire,               \* tick messages the feed has sent and onmessage has not yet got: <<socket, symbol, epoch>>
    arrived,            \* the tick messages onmessage got, in order: <<symbol, epoch, latest subscriber>>
    delivered,          \* the tick callback invocations, in order: <<symbol, epoch, callback>>
    connectCalls,       \* the number of times a caller ran connect()
    quote,              \* the quote of the tick message handleTickData got last, as its characters
    tickHistory,        \* the tickHistory state of the panel: ticks {price, digit}, newest first
    tickCount,          \* the tickCount state of the panel
    selectedMarket,     \* the selectedMarket state of the panel
    digitStats,         \* the digitStats state of the panel: for each digit its DigitStats, percentage in tenths
    filteredTicks,      \* the indexes in tickHistory of the filteredTicks of the last calculateDigitStats
    panelLast,          \* what the panel handled last, how many ticks its slice dropped, the market before
    recentTicks,        \* the recentTicks state of the panel: digits, newest first
    displayedPrice,     \* the currentPrice state of the panel: the text shown, as its characters
    selectedIndex,      \* the selectedIndex state of the panel
    subscriptionId,     \* the subscriptionId state of the panel: <<>> when null, else the key `tick_${symbol}`
    effectDeps,         \* selectedIndex and subscriptionId of the render whose subscribe effect ran last (<<>>: none yet)
    effectRuns,         \* the runs of the async subscribeToTicks of the subscribe effect: symbol, where it is, its call
    isLoading,          \* the isLoading state of ManualTradingPanel
    proposals,          \* its proposals state: the contract sides that have a proposal
    stake,              \* its stake state, in hundredths
    debounceTimer,      \* the setTimeout(getProposals, 500) of its proposals effect is pending
    proposalFetches,    \* the getProposals runs that await getMultipleProposals
    tradeRequests,      \* the executeTrade runs that await manualTradingService.executeTrade
    indicatorProps,     \* the props TradeIndicators was rendered with last: trades and currentPrice
    evaluated,          \* the activeTrades state of TradeIndicators: the trades as its effect left them
    updates,            \* the trades the effect passed to onTradeUpdate in its last run
    positions,          \* tradePositionManager.positions
    currentPrice,       \* the currentPrice prop of TradeProfitLoss (0: no tick yet)
    totalProfitLoss     \* the totalProfitLoss state of TradeProfitLoss

\* the tick messages in flight and the two logs of their handling
streamVars == <<wire, arrived, delivered>>

\* the tick window of the digit panel, its settings and its statistics
windowVars == <<tickHistory, tickCount, selectedMarket, digitStats, filteredTicks, panelLast>>

\* the state of the components that use the client: the digit panel, the trade
\* indicators and the profit and loss panel
\* the recent digits and the price the digit panel shows
shownVars == <<recentTicks, displayedPrice>>

\* the index select of the digit panel and its subscribe effect
selectVars == <<selectedIndex, subscriptionId, effectDeps, effectRuns>>

\* the state of the manual trading panel
tradingVars == <<isLoading, proposals, stake, debounceTimer, proposalFetches, tradeRequests>>

panelVars == <<quote, tickHistory, tickCount, selectedMarket, digitStats, filteredTicks, panelLast,
              shownVars, selectVars, tradingVars,
              indicatorProps, evaluated, updates, positions, currentPrice, totalProfitLoss>>

vars == <<sock, ws, reconnectAttempts, reconnectTimers, subscriptions, calls,
          responses, serverSubs, delayLog, latest, last, handles, streamVars, connectCalls, panelVars>>

\* the state of the client
feedVars == <<sock, ws, reconnectAttempts, reconnectTimers, subscriptions, calls,
              responses, serverSubs, delayLog, latest, last, handles, streamVars, connectCalls>>

(* ------------------------- the registry (Map) ------------------------- *)

\* Map.prototype.has
MapHas(m, k) == \E e \in m : e[1] = k

\* Map.prototype.get: the callbacks stored under k (none when absent)
MapGet(m, k) == {e[2] : e \in {x \in m : x[1] = k}}

\* a delete that leaves the entry in place
MapDeleteNone(m, k) == m

\* Map.prototype.delete
MapDelete(m, k) == {e \in m : e[1] # k}

\* a Map.set that keeps the old entry of the key
MapSetKeepOld(m, k, v) == m \cup {<<k, v>>}

\* Map.prototype.set: replaces the entry of the key
MapSet(m, k, v) == MapDelete(m, k) \cup {<<k, v>>}

\* `tick_${symbol}`
TickKey(symbol) == <<"tick", symbol>>

\* `history_${symbol}`: the request id of call c depends on its symbol alone
HistoryRequestId(symbol, c) == <<"history", symbol>>

\* the closure getTicksHistory stores for call c
HistoryCallback(c) == <<"resolve", c>>

(* ------------------------------ helpers ------------------------------- *)

\* a validation that lets the empty symbol through
IsInvalidSymbolNoEmpty(symbol) == symbol \in {"na", "undefined", "null"}

\* !symbol || symbol === 'na' || symbol === 'undefined' || symbol === 'null'
IsInvalidSymbol(symbol) == symbol = "" \/ symbol \in {"na", "undefined", "null"}

\* a connection test that looks at this.ws only, not at its readyState
NotConnectedNullOnly == ws = 0

\* !this.ws || this.ws.readyState !== WebSocket.OPEN
NotConnected == IF ws = 0 THEN TRUE ELSE sock[ws] # "OPEN"

\* a retry test that allows one attempt too many
CanRetryOffByOne(attempts) == attempts <= maxReconnectAttempts

\* this.reconnectAttempts < this.maxReconnectAttempts
CanRetry(attempts) == attempts < maxReconnectAttempts

\* a constant delay
RetryDelayConstant(attempts) == reconnectDelay

\* this.reconnectDelay * this.reconnectAttempts
RetryDelay(attempts) == reconnectDelay * attempts

\* onopen: this.reconnectAttempts = 0
AttemptsAfterOpen(attempts) == 0

\* promise semantics: only the first resolve or reject settles the promise
Settle(cs, c, outcome, data) ==
    IF cs[c].outcome = "pending"
    THEN [cs EXCEPT ![c].outcome = outcome, ![c].data = data]
    ELSE cs

\* the record of the handler that ran last: the operation, its argument, its
\* result, the callbacks it ran, the requests it sent and the callbacks it took
\* out of the registry
Did(op, symbol, result, invoked, sent) ==
    [op |-> op, symbol |-> symbol, result |-> result, invoked |-> invoked, sent |-> sent,
     replaced |-> {}]

\* an internal handler ran last (a timer, onopen, onclose, connect): nothing a caller sees
Internal == Did("internal", "", "", {}, {})

\* the symbols the feed streams (the values of SYMBOL_MAP the inputs use)
FeedSymbols == {"R_10", "R_25"}

FreeSock == CHOOSE s \in SockIds : sock[s] = "FREE" /\ \A t \in SockIds : sock[t] = "FREE" => s <= t

(* --------------------------- connect, reconnect ----------------------- *)

\* reconnect(): the counter, the timers and the delays after it ran
AttemptsAfterReconnect(attempts) ==
    IF CanRetry(attempts) THEN attempts + 1 ELSE attempts

\* a reconnect() that sets its timer twice
TimersSetTwice(attempts, timers) ==
    IF CanRetry(attempts)
    THEN timers \o <<RetryDelay(attempts + 1), RetryDelay(attempts + 1)>>
    ELSE timers

TimersAfterReconnect(attempts, timers) ==
    IF CanRetry(attempts) THEN Append(timers, RetryDelay(attempts + 1)) ELSE timers

DelaysAfterReconnect(attempts, delays) ==
    IF CanRetry(attempts) THEN Append(delays, RetryDelay(attempts + 1)) ELSE delays

\* the state after the constructor ran connect(): a transport is connecting, or
\* new WebSocket threw and the catch block ran reconnect()
\* useState(1000) of tickCount, and the value the reset button and an empty or
\* zero entry set
DefaultTickCount == 1000

\* the DigitStats of a digit before any flag is set
Stat(digit, count, percentage) ==
    [digit |-> digit, count |-> count, percentage |-> percentage,
     isHighest |-> FALSE, is2ndHighest |-> FALSE, isLowest |-> FALSE, is2ndLowest |-> FALSE]

\* what calculateDigitStats returns for no ticks
\* useState(10) of the stake, in hundredths
InitialStake == 1000

EmptyStats == [digit \in 0..9 |-> Stat(digit, 0, 0)]

Init ==
    /\ subscriptions = {}
    /\ calls = <<>>
    /\ responses = {}
    /\ serverSubs = {}
    /\ latest = [s \in FeedSymbols |-> "none"]
    /\ handles = {}
    /\ wire = <<>>
    /\ arrived = <<>>
    /\ delivered = <<>>
    /\ connectCalls = 0
    /\ quote = <<>>
    /\ tickHistory = <<>>
    /\ tickCount = DefaultTickCount
    /\ selectedMarket = "Circles"
    /\ digitStats = <<>>
    /\ filteredTicks = {}
    /\ panelLast = [op |-> "render", dropped |-> 0, market |-> "Circles"]
    /\ recentTicks = <<>>
    /\ displayedPrice = <<"0", ".", "0", "0", "0">>
    /\ selectedIndex = "Volatility 10 Index"
    /\ subscriptionId = <<>>
    /\ effectDeps = <<>>
    /\ effectRuns = <<>>
    /\ isLoading = FALSE
    /\ proposals = {}
    /\ stake = InitialStake
    /\ debounceTimer = TRUE
    /\ proposalFetches = 0
    /\ tradeRequests = 0
    /\ indicatorProps = [trades |-> <<>>, currentPrice |-> 0]
    /\ evaluated = <<>>
    /\ updates = <<>>
    /\ positions = <<>>
    /\ currentPrice = 0
    /\ totalProfitLoss = 0
    /\ \/ /\ sock = [s \in SockIds |-> IF s = 1 THEN "CONNECTING" ELSE "FREE"]
          /\ ws = 1
          /\ reconnectAttempts = 0
          /\ reconnectTimers = <<>>
          /\ delayLog = <<>>
          /\ last = Internal
       \/ /\ sock = [s \in SockIds |-> "FREE"]
          /\ ws = 0
          /\ reconnectAttempts = AttemptsAfterReconnect(0)
          /\ reconnectTimers = TimersAfterReconnect(0, <<>>)
          /\ delayLog = DelaysAfterReconnect(0, <<>>)
          /\ last = Internal

RemoveAt(seq, i) == [j \in 1..(Len(seq) - 1) |-> IF j < i THEN seq[j] ELSE seq[j + 1]]

\* a reconnect timer fires and connect() makes a new transport
ConnectTimer(i) ==
    /\ reconnectTimers[i] = 0
    /\ \E s \in SockIds : sock[s] = "FREE"
    /\ sock' = [sock EXCEPT ![FreeSock] = "CONNECTING"]
    /\ ws' = FreeSock
    /\ reconnectTimers' = RemoveAt(reconnectTimers, i)
    /\ last' = Internal
    /\ UNCHANGED <<reconnectAttempts, subscriptions, calls, responses, serverSubs, delayLog, latest>>
    /\ UNCHANGED <<handles, streamVars, connectCalls, panelVars>>

\* a reconnect timer fires and new WebSocket throws: the catch block runs reconnect()
ConnectTimerThrows(i) ==
    /\ reconnectTimers[i] = 0
    /\ reconnectAttempts' = AttemptsAfterReconnect(reconnectAttempts)
    /\ reconnectTimers' = TimersAfterReconnect(reconnectAttempts, RemoveAt(reconnectTimers, i))
    /\ delayLog' = DelaysAfterReconnect(reconnectAttempts, delayLog)
    /\ last' = Internal
    /\ UNCHANGED <<sock, ws, subscriptions, calls, responses, serverSubs, latest>>
    /\ UNCHANGED <<handles, streamVars, connectCalls, panelVars>>

\* ws.onopen
OnOpen(s) ==
    /\ sock[s] = "CONNECTING"
    /\ sock' = [sock EXCEPT ![s] = "OPEN"]
    /\ reconnectAttempts' = AttemptsAfterOpen(reconnectAttempts)
    /\ delayLog' = <<>>
    /\ last' = Internal
    /\ UNCHANGED <<ws, reconnectTimers, subscriptions, calls, responses, serverSubs, latest>>
    /\ UNCHANGED <<handles, streamVars, connectCalls, panelVars>>

\* the messages in flight that are not on socket s
OffSocket(w, s) == LET Other(m) == m[1] # s IN SelectSeq(w, Other)

\* ws.onclose (after a failed connection attempt or the loss of an open one):
\* what the feed had in flight or streamed on the socket is gone, reconnect() runs
OnClose(s) ==
    /\ sock[s] \in {"CONNECTING", "OPEN"}
    /\ sock' = [sock EXCEPT ![s] = "FREE"]
    /\ responses' = {r \in responses : r[1] # s}
    /\ serverSubs' = {r \in serverSubs : r[1] # s}
    /\ reconnectAttempts' = AttemptsAfterReconnect(reconnectAttempts)
    /\ reconnectTimers' = TimersAfterReconnect(reconnectAttempts, reconnectTimers)
    /\ delayLog' = DelaysAfterReconnect(reconnectAttempts, delayLog)
    /\ last' = Internal
    /\ UNCHANGED <<ws, subscriptions, calls, latest>>
    /\ wire' = OffSocket(wire, s)
    /\ UNCHANGED <<handles, arrived, delivered, connectCalls, panelVars>>

(* ------------------------------ the API ------------------------------- *)

\* a call record: the promise's outcome ("pending", "resolved" or the rejection),
\* the call whose response resolved it, and the remaining ms of its timer (-1: none)
Call(symbol, outcome, timer) ==
    [symbol |-> symbol, outcome |-> outcome, data |-> 0, timer |-> timer]

\* getTicksHistory(symbol)
GetTicksHistory(symbol, maxSent) ==
    /\ IF NotConnected THEN TRUE ELSE IF IsInvalidSymbol(symbol) THEN TRUE ELSE Len(calls) < maxSent
    /\ LET c == Len(calls) + 1
       IN  IF NotConnected
           THEN /\ last' = Did("getTicksHistory", symbol, ErrNotConnected, {}, {})
                /\ UNCHANGED <<subscriptions, responses, calls>>
           ELSE IF IsInvalidSymbol(symbol)
           THEN /\ last' = Did("getTicksHistory", symbol, ErrInvalidSymbol, {}, {})
                /\ UNCHANGED <<subscriptions, responses, calls>>
           ELSE /\ subscriptions' = MapSet(subscriptions, HistoryRequestId(symbol, c), HistoryCallback(c))
                /\ responses' = responses \cup {<<ws, c>>}
                /\ calls' = Append(calls, Call(symbol, "pending", HistoryTimeout))
                /\ last' = Did("getTicksHistory", symbol, "pending", {}, {"ticks_history"})
    /\ UNCHANGED <<sock, ws, reconnectAttempts, reconnectTimers, serverSubs, delayLog, latest>>
    /\ UNCHANGED <<handles, streamVars, connectCalls, panelVars>>

\* ws.onmessage with the history response to call r[2]: the callback stored under
\* `history_${echo_req.ticks_history}` deletes its own request id and resolves
HistoryMessage(r) ==
    /\ r \in responses
    /\ r[1] \in SockIds
    /\ sock[r[1]] = "OPEN"
    /\ responses' = responses \ {r}
    /\ LET symbol == calls[r[2]].symbol
           found == MapGet(subscriptions, HistoryRequestId(symbol, r[2]))
       IN  IF found = {}
           THEN /\ last' = Did("history", symbol, "dropped", {}, {})
                /\ UNCHANGED <<subscriptions, calls>>
           ELSE \E cb \in found :
                /\ subscriptions' = MapDelete(subscriptions, HistoryRequestId(calls[cb[2]].symbol, cb[2]))
                /\ calls' = Settle(calls, cb[2], "resolved", r[2])
                /\ last' = Did("history", symbol, "delivered", {cb}, {})
    /\ UNCHANGED <<sock, ws, reconnectAttempts, reconnectTimers, serverSubs, delayLog, latest>>
    /\ UNCHANGED <<handles, streamVars, connectCalls, panelVars>>

\* the 10000 ms timer of call c fires (timers of equal delay fire in the order set)
HistoryTimer(c) ==
    /\ c \in 1..Len(calls)
    /\ calls[c].timer = 0
    /\ \A d \in 1..(c - 1) : calls[d].timer # 0
    /\ LET id == HistoryRequestId(calls[c].symbol, c)
           fired == [calls EXCEPT ![c].timer = -1]
       IN  IF MapHas(subscriptions, id)
           THEN /\ subscriptions' = MapDelete(subscriptions, id)
                /\ calls' = Settle(fired, c, ErrTimeout, 0)
                /\ last' = Internal
           ELSE /\ calls' = fired
                /\ last' = Internal
                /\ UNCHANGED subscriptions
    /\ UNCHANGED <<sock, ws, reconnectAttempts, reconnectTimers, responses, serverSubs, delayLog, latest>>
    /\ UNCHANGED <<handles, streamVars, connectCalls, panelVars>>

\* subscribeToTicks(symbol, callback)
SubscribeToTicks(symbol, cb) ==
    /\ IF NotConnected
       THEN /\ last' = Did("subscribeToTicks", symbol, ErrNotConnected, {}, {})
            /\ UNCHANGED <<subscriptions, serverSubs, latest, handles>>
       ELSE /\ subscriptions' = MapSet(subscriptions, TickKey(symbol), cb)
            /\ handles' = handles \cup {symbol}
            /\ serverSubs' = IF symbol \in FeedSymbols THEN serverSubs \cup {<<ws, symbol>>} ELSE serverSubs
            /\ latest' = [latest EXCEPT ![symbol] = cb]
            /\ last' = [Did("subscribeToTicks", symbol, "resolved", {}, {"ticks"})
                        EXCEPT !.replaced = MapGet(subscriptions, TickKey(symbol)) \ {cb}]
    /\ UNCHANGED <<sock, ws, reconnectAttempts, reconnectTimers, calls, responses, delayLog>>
    /\ UNCHANGED <<streamVars, connectCalls, panelVars>>

\* unsubscribe(`tick_${symbol}`): the entry is deleted and, when the transport is
\* open, forget_all ends every tick stream of the connection
Unsubscribe(symbol) ==
    /\ subscriptions' = IF MapHas(subscriptions, TickKey(symbol))
                        THEN MapDelete(subscriptions, TickKey(symbol))
                        ELSE subscriptions
    /\ latest' = [latest EXCEPT ![symbol] = "none"]
    /\ IF NotConnected
       THEN /\ last' = [Did("unsubscribe", symbol, "", {}, {})
                        EXCEPT !.replaced = MapGet(subscriptions, TickKey(symbol))]
            /\ UNCHANGED serverSubs
       ELSE /\ last' = [Did("unsubscribe", symbol, "", {}, {"forget_all"})
                        EXCEPT !.replaced = MapGet(subscriptions, TickKey(symbol))]
            /\ serverSubs' = {x \in serverSubs : x[1] # ws}
    /\ UNCHANGED <<sock, ws, reconnectAttempts, reconnectTimers, calls, responses, delayLog>>
    /\ UNCHANGED <<handles, streamVars, connectCalls, panelVars>>

\* ws.onmessage with a tick of a streamed symbol: the callback under `tick_${symbol}` runs
TickMessage(s, symbol) ==
    /\ <<s, symbol>> \in serverSubs
    /\ sock[s] = "OPEN"
    /\ last' = Did("tick", symbol, "", MapGet(subscriptions, TickKey(symbol)), {})
    /\ UNCHANGED <<sock, ws, reconnectAttempts, reconnectTimers, subscriptions, calls,
                   responses, serverSubs, delayLog, latest>>
    /\ UNCHANGED <<handles, streamVars, connectCalls, panelVars>>

(* ------------------------- messages in flight ------------------------- *)

\* a parsed message: the symbol of its tick field and the symbol its history
\* field answers ("" when the field is absent); malformed when JSON.parse throws
Message(malformed, tick, history) == [malformed |-> malformed, tick |-> tick, history |-> history]

\* messages that are not ticks or history responses: text that is not JSON, and
\* JSON with neither field (the feed's answer to forget_all, an error answer)
OtherMessages == {Message(TRUE, "", ""), Message(FALSE, "", "")}

\* a handler that runs every tick callback when the message has no entry of its own
DispatchOrBroadcast(m, msg) ==
    IF msg.tick # "" /\ MapHas(m, TickKey(msg.tick))
    THEN MapGet(m, TickKey(msg.tick))
    ELSE {e[2] : e \in {x \in m : x[1][1] = "tick"}}

\* a handler that finds no callback for a tick
DispatchNothing(m, msg) == {}

\* ws.onmessage: the callbacks it runs for a message; the catch block ends the
\* handling of a message that does not parse
Dispatch(m, msg) ==
    IF msg.malformed
    THEN {}
    ELSE (IF msg.tick # "" THEN MapGet(m, TickKey(msg.tick)) ELSE {})
         \cup (IF msg.history # "" THEN MapGet(m, <<"history", msg.history>>) ELSE {})

\* the epoch of the next tick of the feed: later than every tick sent before
NextEpoch ==
    LET sent == {wire[i][3] : i \in 1..Len(wire)} \cup {arrived[i][2] : i \in 1..Len(arrived)}
    IN  IF sent = {} THEN 1 ELSE 1 + (CHOOSE e \in sent : \A f \in sent : f <= e)

\* the feed sends a tick of a streamed symbol; it is in flight until onmessage gets it
FeedTick(s, symbol, maxTicks) ==
    /\ <<s, symbol>> \in serverSubs
    /\ sock[s] = "OPEN"
    /\ NextEpoch <= maxTicks
    /\ wire' = Append(wire, <<s, symbol, NextEpoch>>)
    /\ last' = Internal
    /\ UNCHANGED <<sock, ws, reconnectAttempts, reconnectTimers, subscriptions, calls,
                   responses, serverSubs, delayLog, latest, handles, arrived, delivered, connectCalls, panelVars>>

\* the invocations of the callbacks cbs with the tick of symbol and epoch
RECURSIVE Invocations(_, _, _)
Invocations(cbs, symbol, epoch) ==
    IF cbs = {}
    THEN <<>>
    ELSE LET cb == CHOOSE x \in cbs : TRUE
         IN  <<<<symbol, epoch, cb>>>> \o Invocations(cbs \ {cb}, symbol, epoch)

\* ws.onmessage with the oldest tick in flight on socket s: the callback under
\* `tick_${symbol}` runs with it, at once
WireTick(s) ==
    /\ sock[s] = "OPEN"
    /\ \E i \in 1..Len(wire) :
          /\ wire[i][1] = s
          /\ \A j \in 1..(i - 1) : wire[j][1] # s
          /\ LET symbol == wire[i][2]
                 epoch == wire[i][3]
                 invoked == Dispatch(subscriptions, Message(FALSE, symbol, ""))
             IN  /\ wire' = RemoveAt(wire, i)
                 /\ arrived' = Append(arrived, <<symbol, epoch, latest[symbol]>>)
                 /\ delivered' = delivered \o Invocations(invoked, symbol, epoch)
                 /\ last' = Did("tick", symbol, "", invoked, {})
    /\ UNCHANGED <<sock, ws, reconnectAttempts, reconnectTimers, subscriptions, calls,
                   responses, serverSubs, delayLog, latest, handles, connectCalls, panelVars>>

\* ws.onmessage with a message that is neither a tick nor a history response
OtherMessage(s, msg) ==
    /\ sock[s] = "OPEN"
    /\ last' = Did("message", "", IF msg.malformed THEN "malformed" ELSE "unmatched",
                   Dispatch(subscriptions, msg), {})
    /\ UNCHANGED <<sock, ws, reconnectAttempts, reconnectTimers, subscriptions, calls,
                   responses, serverSubs, delayLog, latest, handles, streamVars, connectCalls, panelVars>>

(* -------------------------------- time -------------------------------- *)

TimerDue ==
    \/ \E i \in 1..Len(reconnectTimers) : reconnectTimers[i] = 0
    \/ \E c \in 1..Len(calls) : calls[c].timer = 0

TimerArmed ==
    \/ Len(reconnectTimers) > 0
    \/ \E c \in 1..Len(calls) : calls[c].timer > 0

\* TimeStep ms pass: no timer is overdue, every armed timer comes closer
Advance ==
    /\ TimerArmed
    /\ ~TimerDue
    /\ reconnectTimers' = [i \in 1..Len(reconnectTimers) |-> reconnectTimers[i] - TimeStep]
    /\ calls' = [c \in 1..Len(calls) |->
                    IF calls[c].timer > 0
                    THEN [calls[c] EXCEPT !.timer = calls[c].timer - TimeStep]
                    ELSE calls[c]]
    /\ last' = Internal
    /\ UNCHANGED <<sock, ws, reconnectAttempts, subscriptions, responses, serverSubs, delayLog, latest>>
    /\ UNCHANGED <<handles, streamVars, connectCalls, panelVars>>

(* ---------------------------- specification --------------------------- *)

\* the transport, the reconnection policy and the clock
NextConn ==
    \/ \E i \in 1..Len(reconnectTimers) : ConnectTimer(i)
    \/ \E i \in 1..Len(reconnectTimers) : ConnectTimerThrows(i)
    \/ \E s \in SockIds : OnOpen(s)
    \/ \E s \in SockIds : OnClose(s)
    \/ Advance

\* the history API: calls, responses, timeouts
NextHistory(maxSent) ==
    \/ \E symbol \in Symbols : GetTicksHistory(symbol, maxSent)
    \/ \E r \in responses : HistoryMessage(r)
    \/ \E c \in 1..Len(calls) : HistoryTimer(c)

\* the tick API: subscribe, and unsubscribe with a subscription id a caller holds
NextApiTicks ==
    \/ \E symbol \in FeedSymbols, cb \in Callbacks : SubscribeToTicks(symbol, cb)
    \/ \E symbol \in handles : Unsubscribe(symbol)

\* the tick API and the ticks of a feed whose messages arrive as they are sent
NextTicks ==
    \/ NextApiTicks
    \/ \E s \in SockIds, symbol \in FeedSymbols : TickMessage(s, symbol)

\* the messages of a feed whose ticks take time to arrive
NextFeed(maxTicks) ==
    \/ \E s \in SockIds, symbol \in FeedSymbols : FeedTick(s, symbol, maxTicks)
    \/ \E s \in SockIds : WireTick(s)
    \/ \E s \in SockIds, msg \in OtherMessages : OtherMessage(s, msg)

Next == NextConn \/ NextTicks \/ NextHistory(MaxMixedCalls)

\* the whole client
Spec == Init /\ [][Next]_vars

NextFetch == NextConn \/ NextHistory(MaxCalls)

\* the client used for history requests only, with more of them
SpecFetch == Init /\ [][NextFetch]_vars

NextRetry == NextConn \/ NextTicks

\* the client without history requests; due timers fire, time passes, and a
\* connecting transport ends up open or closed
SpecRetry ==
    /\ Init
    /\ [][NextRetry]_vars
    /\ WF_vars(Advance)
    /\ WF_vars(\E i \in 1..Len(reconnectTimers) : ConnectTimer(i) \/ ConnectTimerThrows(i))
    /\ WF_vars(\E s \in SockIds : sock[s] = "CONNECTING" /\ (OnOpen(s) \/ OnClose(s)))

NextStream == NextConn \/ NextApiTicks \/ NextFeed(MaxTicks)

\* the client without history requests, with ticks in flight
SpecStream == Init /\ [][NextStream]_vars

\* connect() run by a caller: it has no test of the present transport
Connect(maxConnects) ==
    /\ connectCalls < maxConnects
    /\ connectCalls' = connectCalls + 1
    /\ \E s \in SockIds : sock[s] = "FREE"
    /\ sock' = [sock EXCEPT ![FreeSock] = "CONNECTING"]
    /\ ws' = FreeSock
    /\ last' = Did("connect", "", "", {}, {})
    /\ UNCHANGED <<reconnectAttempts, reconnectTimers, subscriptions, calls, responses,
                   serverSubs, delayLog, latest, handles, streamVars, panelVars>>

NextManual == NextConn \/ Connect(MaxConnects)

\* the transport and the reconnection policy, with connect() open to callers
SpecManual == Init /\ [][NextManual]_vars

(* --------------------------- the digit panel -------------------------- *)

DigitChars == {"0", "1", "2", "3", "4", "5", "6", "7", "8", "9"}

\* the characters the quotes are made of: two digits and the point
QuoteChars == {"0", "7", "."}

\* tick.quote as sent by the feed: every string of up to MaxQuoteLen of these
\* characters (the empty string and the lone point among them), the two quotes
\* the specification names and four more of their kind, and strings with
\* letters before or after a number
Quotes ==
    UNION {[1..k -> QuoteChars] : k \in 0..MaxQuoteLen}
        \cup {<<"7", "0", "5", "4", ".", "2", "3", "1">>, <<"1", "0", "0", ".", "0", "0">>}
        \cup {<<"7", "0", "5", "4", ".", "2", "3", "0">>, <<"1", "0", "0", ".", "1", "0">>,
              <<"0", ".", "0", "7", "0">>, <<"5", ".", "5", "0">>}
        \cup {<<"x">>, <<"x", "7">>, <<"7", "x">>, <<"7", ".", "x">>, <<"7", ".", "0", "x">>,
              <<"N", "a", "N">>}

DigitValue(c) ==
    CASE c = "0" -> 0 [] c = "1" -> 1 [] c = "2" -> 2 [] c = "3" -> 3 [] c = "4" -> 4
      [] c = "5" -> 5 [] c = "6" -> 6 [] c = "7" -> 7 [] c = "8" -> 8 [] c = "9" -> 9

\* the length of the longest prefix of s made of digits
DigitRun(s) ==
    CHOOSE k \in 0..Len(s) :
        /\ \A i \in 1..k : s[i] \in DigitChars
        /\ IF k = Len(s) THEN TRUE ELSE s[k + 1] \notin DigitChars

RECURSIVE StripLeadingZeros(_)
StripLeadingZeros(d) ==
    IF d = <<>> THEN d
    ELSE IF Head(d) = "0" THEN StripLeadingZeros(Tail(d)) ELSE d

RECURSIVE StripTrailingZeros(_)
StripTrailingZeros(d) ==
    IF d = <<>> THEN d
    ELSE IF d[Len(d)] = "0" THEN StripTrailingZeros(SubSeq(d, 1, Len(d) - 1)) ELSE d

\* a number value: the digits of its integer part without leading zeros and of
\* its fraction without trailing zeros (a number has no other digits), or NaN
Number(int, frac) ==
    [nan |-> FALSE, int |-> StripLeadingZeros(int), frac |-> StripTrailingZeros(frac)]

NaN == [nan |-> TRUE, int |-> <<>>, frac |-> <<>>]

\* parseFloat: the value of the longest prefix that is a decimal literal
\* (digits, then optionally a point and digits), NaN when that prefix has no digit
ParseFloat(s) ==
    LET k == DigitRun(s)
        intPart == SubSeq(s, 1, k)
        rest == SubSeq(s, k + 1, Len(s))
        fracPart == IF rest = <<>> THEN <<>>
                    ELSE IF rest[1] = "." THEN SubSeq(Tail(rest), 1, DigitRun(Tail(rest)))
                    ELSE <<>>
    IN  IF intPart = <<>> /\ fracPart = <<>> THEN NaN ELSE Number(intPart, fracPart)

\* Number.prototype.toString for NaN and for the values from 0.000001 up to
\* 10^21 (outside of them it uses an exponent): the shortest decimal form
NumberToString(n) ==
    IF n.nan THEN <<"N", "a", "N">>
    ELSE (IF n.int = <<>> THEN <<"0">> ELSE n.int)
         \o (IF n.frac = <<>> THEN <<>> ELSE <<".">> \o n.frac)

DigitChar(v) ==
    CASE v = 0 -> "0" [] v = 1 -> "1" [] v = 2 -> "2" [] v = 3 -> "3" [] v = 4 -> "4"
      [] v = 5 -> "5" [] v = 6 -> "6" [] v = 7 -> "7" [] v = 8 -> "8" [] v = 9 -> "9"

\* the digits of the successor of the number with digits d, leading zeros kept
RECURSIVE Increment(_)
Increment(d) ==
    IF d = <<>> THEN <<"1">>
    ELSE IF d[Len(d)] = "9" THEN Append(Increment(SubSeq(d, 1, Len(d) - 1)), "0")
    ELSE Append(SubSeq(d, 1, Len(d) - 1), DigitChar(DigitValue(d[Len(d)]) + 1))

\* Number.prototype.toFixed(digits) for NaN and for the values below 10^21:
\* the value rounded to that many decimals, written with all of them
ToFixed(n, digits) ==
    IF n.nan THEN <<"N", "a", "N">>
    ELSE LET padded == n.frac \o [i \in 1..digits |-> "0"]
             scaled == n.int \o SubSeq(padded, 1, digits)
             up == IF Len(n.frac) > digits THEN DigitValue(n.frac[digits + 1]) >= 5 ELSE FALSE
             rounded == IF up THEN Increment(scaled) ELSE scaled
             whole == IF Len(rounded) = digits THEN <<"0">> \o rounded ELSE rounded
         IN  SubSeq(whole, 1, Len(whole) - digits) \o <<".">>
                 \o SubSeq(whole, Len(whole) - digits + 1, Len(whole))

\* a parseInt whose NaN is not replaced
ParseIntNoDefault(c) == IF c \in DigitChars THEN DigitValue(c) ELSE -1

\* parseInt(lastChar) || 0
ParseIntOrZero(c) == IF c \in DigitChars THEN DigitValue(c) ELSE 0

\* extractDigit(price)
extractDigit(price) ==
    LET priceStr == NumberToString(price)
        lastChar == priceStr[Len(priceStr)]
    IN  ParseIntOrZero(lastChar)

\* the options of the market select
MarketOptions == {"Circles", "Matches", "Differs"}

\* a filter that keeps the tick at index 0 too
FilterKeepingFirst(ticks, market) ==
    IF market = "Matches"
    THEN {i \in 1..Len(ticks) : IF i = 1 THEN TRUE ELSE ticks[i].digit = ticks[i - 1].digit}
    ELSE IF market = "Differs"
    THEN {i \in 1..Len(ticks) : IF i = 1 THEN TRUE ELSE ticks[i].digit # ticks[i - 1].digit}
    ELSE 1..Len(ticks)

\* a filter whose Matches keeps the ticks that differ
FilterSwapped(ticks, market) ==
    IF market = "Matches"
    THEN {i \in 1..Len(ticks) : IF i = 1 THEN FALSE ELSE ticks[i].digit # ticks[i - 1].digit}
    ELSE IF market = "Differs"
    THEN {i \in 1..Len(ticks) : IF i = 1 THEN FALSE ELSE ticks[i].digit = ticks[i - 1].digit}
    ELSE 1..Len(ticks)

\* a filter whose Differs keeps every tick that Matches does not keep
FilterComplement(ticks, market) ==
    IF market = "Matches"
    THEN {i \in 1..Len(ticks) : IF i = 1 THEN FALSE ELSE ticks[i].digit = ticks[i - 1].digit}
    ELSE IF market = "Differs"
    THEN {i \in 1..Len(ticks) : IF i = 1 THEN TRUE ELSE ticks[i].digit # ticks[i - 1].digit}
    ELSE 1..Len(ticks)

\* the filteredTicks of calculateDigitStats, as the indexes (from 1) of the
\* ticks kept: ticks.filter((tick, index) => ...) for Matches and for Differs
\* drops index 0 and compares a tick with ticks[index - 1]; any other market
\* keeps ticks
Filter(ticks, market) ==
    IF market = "Matches"
    THEN {i \in 1..Len(ticks) : IF i = 1 THEN FALSE ELSE ticks[i].digit = ticks[i - 1].digit}
    ELSE IF market = "Differs"
    THEN {i \in 1..Len(ticks) : IF i = 1 THEN FALSE ELSE ticks[i].digit # ticks[i - 1].digit}
    ELSE 1..Len(ticks)

\* a total that is the length of the window
WindowLength(ticks, kept) == IF Len(ticks) = 0 THEN 1 ELSE Len(ticks)

\* filteredTicks.length || 1
TotalCount(ticks, kept) == IF Cardinality(kept) = 0 THEN 1 ELSE Cardinality(kept)

\* parseFloat(((count / totalCount) * 100).toFixed(1)), in tenths: toFixed
\* takes the nearest multiple of 0.1 and the larger of two nearest
Percentage(count, totalCount) == (2000 * count + totalCount) \div (2 * totalCount)

\* a sort that puts an element behind the elements it compares equal to
RECURSIVE ReversingSort(_, _)
ReversingSort(items, key) ==
    IF items = <<>>
    THEN <<>>
    ELSE LET rest == ReversingSort(Tail(items), key)
             k == Cardinality({i \in 1..Len(rest) : key[rest[i]] <= key[Head(items)]})
         IN  SubSeq(rest, 1, k) \o <<Head(items)>> \o SubSeq(rest, k + 1, Len(rest))

\* sorted with x put behind its elements whose key is not larger
InsertBehindEqual(sorted, x, key) ==
    LET k == Cardinality({i \in 1..Len(sorted) : key[sorted[i]] <= key[x]})
    IN  SubSeq(sorted, 1, k) \o <<x>> \o SubSeq(sorted, k + 1, Len(sorted))

\* the items put one by one, in their order, into sorted
RECURSIVE SortInto(_, _, _)
SortInto(sorted, items, key) ==
    IF items = <<>>
    THEN sorted
    ELSE SortInto(InsertBehindEqual(sorted, Head(items), key), Tail(items), key)

\* Array.prototype.sort by ascending key: it is stable, an element stays
\* before the later elements it compares equal to
StableSort(items, key) == SortInto(<<>>, items, key)

\* an array of ten elements, one for each digit, filled with the values of f
ArrayOf(f) ==
    (0 :> f[0]) @@ (1 :> f[1]) @@ (2 :> f[2]) @@ (3 :> f[3]) @@ (4 :> f[4]) @@
    (5 :> f[5]) @@ (6 :> f[6]) @@ (7 :> f[7]) @@ (8 :> f[8]) @@ (9 :> f[9])

\* the digits 0 to 9 in the order of the stats array
DigitOrder == [i \in 1..10 |-> i - 1]

\* calculateDigitStats(ticks) with the selectedMarket of its closure
calculateDigitStats(ticks, market) ==
    IF Len(ticks) = 0
    THEN EmptyStats
    ELSE LET kept == Filter(ticks, market)
             digitCounts == ArrayOf([d \in 0..9 |-> Cardinality({i \in kept : ticks[i].digit = d})])
             totalCount == TotalCount(ticks, kept)
             percentage == ArrayOf([d \in 0..9 |-> Percentage(digitCounts[d], totalCount)])
             sortedByPercentage == StableSort(DigitOrder, ArrayOf([d \in 0..9 |-> 0 - percentage[d]]))
             sortedAsc == StableSort(DigitOrder, percentage)
         IN  [d \in 0..9 |->
                 [Stat(d, digitCounts[d], percentage[d])
                     EXCEPT !.isHighest = (sortedByPercentage[1] = d),
                            !.is2ndHighest = (sortedByPercentage[2] = d),
                            !.isLowest = (sortedAsc[1] = d),
                            !.is2ndLowest = (sortedAsc[2] = d)]]

\* the effect on [tickHistory, calculateDigitStats]: setDigitStats of the
\* statistics of the window, here the window and the market of the next state
StatsEffect ==
    /\ digitStats' = calculateDigitStats(tickHistory', selectedMarket')
    /\ filteredTicks' = Filter(tickHistory', selectedMarket')

\* the first render of the panel is done, its effects have not run yet
FirstRender == panelLast.op = "render"

\* the effect on [tickHistory, calculateDigitStats] runs after the first render
MountEffect ==
    /\ FirstRender
    /\ panelLast' = [op |-> "mount", dropped |-> 0, market |-> selectedMarket]
    /\ UNCHANGED <<tickHistory, tickCount, selectedMarket>>
    /\ StatsEffect
    /\ UNCHANGED <<feedVars, selectVars, tradingVars, quote, shownVars, indicatorProps, evaluated, updates, positions, currentPrice,
                   totalProfitLoss>>

\* a slice that keeps the last n elements
TakeLast(seq, n) ==
    SubSeq(seq, (IF Len(seq) < n THEN 0 ELSE Len(seq) - n) + 1, Len(seq))

\* Array.prototype.slice(0, n): a negative n counts from the end
Take(seq, n) ==
    SubSeq(seq, 1, IF n < 0 THEN (IF Len(seq) + n < 0 THEN 0 ELSE Len(seq) + n)
                   ELSE IF Len(seq) < n THEN Len(seq) ELSE n)

\* the tick made of a quote or of a price of the history
TickOf(q) == [digit |-> extractDigit(ParseFloat(q)), price |-> ParseFloat(q)]

\* the length the recent digits are cut to: the 20 of slice(0, 20) and slice(-20)
RecentLength == 20

\* handleTickData(response) with response.tick.quote = q, while the window and
\* the recent digits it leaves have at most maxLen entries; the effect on
\* tickHistory follows
HandleTickData(q, maxLen) ==
    /\ ~FirstRender
    /\ Len(Take(<<TickOf(q)>> \o tickHistory, tickCount)) <= maxLen
    /\ Len(Take(<<TickOf(q).digit>> \o recentTicks, RecentLength)) <= maxLen
    /\ quote' = q
    /\ displayedPrice' = ToFixed(TickOf(q).price, 3)
    /\ recentTicks' = Take(<<TickOf(q).digit>> \o recentTicks, RecentLength)
    /\ tickHistory' = Take(<<TickOf(q)>> \o tickHistory, tickCount)
    /\ panelLast' = [op |-> "tick", dropped |-> Len(tickHistory) + 1 - Len(tickHistory'),
                     market |-> selectedMarket]
    /\ UNCHANGED <<tickCount, selectedMarket>>
    /\ StatsEffect
    /\ UNCHANGED <<feedVars, selectVars, tradingVars, indicatorProps, evaluated, updates, positions, currentPrice, totalProfitLoss>>

NextDigit == MountEffect \/ \E q \in Quotes : HandleTickData(q, MaxWindow)

\* the digit panel fed with ticks
SpecDigit == Init /\ [][NextDigit]_vars

(* ------------------- the settings of the digit panel ------------------ *)

\* the quotes of the ticks sent to the panel with its settings changing
PanelQuotes == {<<"1">>, <<"7">>}

\* what is entered in the ticks input: nothing, 0, 2, 3, -1 and 6000
Entered == {<<>>, <<"0">>, <<"2">>, <<"3">>, <<"-", "1">>, <<"6", "0", "0", "0">>}

\* the prices of a ticks_history response, oldest first: none, three prices,
\* six prices with six last digits, and 22 prices whose last digits 0 to 9
\* occur 5, 5, 3, 3, 2, 2, 1, 1, 0 and 0 times
Histories ==
    {<<>>,
     <<<<"7">>, <<"7">>, <<"1">>>>,
     <<<<"1">>, <<"2">>, <<"3">>, <<"4">>, <<"5">>, <<"6">>>>,
     <<<<"0">>, <<"1">>, <<"0">>, <<"1">>, <<"2">>, <<"3">>, <<"0">>, <<"1">>, <<"2">>, <<"3">>, <<"4">>,
       <<"5">>, <<"0">>, <<"1">>, <<"2">>, <<"3">>, <<"4">>, <<"5">>, <<"6">>, <<"7">>, <<"0">>, <<"1">>>>}

\* the value of a string of digits
RECURSIVE DecimalValue(_)
DecimalValue(d) ==
    IF d = <<>> THEN 0 ELSE 10 * DecimalValue(SubSeq(d, 1, Len(d) - 1)) + DigitValue(d[Len(d)])

\* parseInt(value) || 1000: the integer of the sign and the leading digits, and
\* 1000 when there is no digit (NaN) or the integer is 0
ParseIntOrDefault(value) ==
    LET negative == IF value = <<>> THEN FALSE ELSE Head(value) = "-"
        unsigned == IF negative THEN Tail(value) ELSE value
        digits == SubSeq(unsigned, 1, DigitRun(unsigned))
        parsed == IF negative THEN 0 - DecimalValue(digits) ELSE DecimalValue(digits)
    IN  IF digits = <<>> \/ parsed = 0 THEN DefaultTickCount ELSE parsed

\* onChange of the ticks input: setTickCount(parseInt(e.target.value) || 1000)
SetTickCount(value) ==
    /\ ~FirstRender
    /\ tickCount' = ParseIntOrDefault(value)
    /\ panelLast' = [op |-> "ticks input", dropped |-> 0, market |-> selectedMarket]
    /\ UNCHANGED <<feedVars, selectVars, tradingVars, quote, shownVars, tickHistory, selectedMarket, digitStats, filteredTicks,
                   indicatorProps, evaluated, updates, positions, currentPrice, totalProfitLoss>>

\* onChange of the market select: setSelectedMarket(e.target.value);
\* calculateDigitStats is made anew and the effect on it follows
SetSelectedMarket(market) ==
    /\ ~FirstRender
    /\ selectedMarket' = market
    /\ panelLast' = [op |-> "market", dropped |-> 0, market |-> selectedMarket]
    /\ UNCHANGED <<tickHistory, tickCount>>
    /\ StatsEffect
    /\ UNCHANGED <<feedVars, selectVars, tradingVars, quote, shownVars, indicatorProps, evaluated, updates, positions, currentPrice,
                   totalProfitLoss>>

\* onClick of the reset button: setTickCount(1000), setRecentTicks([]),
\* setTickHistory([])
ResetClick ==
    /\ ~FirstRender
    /\ tickCount' = DefaultTickCount
    /\ recentTicks' = <<>>
    /\ tickHistory' = <<>>
    /\ panelLast' = [op |-> "reset", dropped |-> 0, market |-> selectedMarket]
    /\ UNCHANGED selectedMarket
    /\ StatsEffect
    /\ UNCHANGED <<feedVars, selectVars, tradingVars, quote, displayedPrice, indicatorProps, evaluated, updates, positions, currentPrice,
                   totalProfitLoss>>

RECURSIVE Reverse(_)
Reverse(seq) == IF seq = <<>> THEN <<>> ELSE Append(Reverse(Tail(seq)), Head(seq))

\* ticks.map(tick => tick.digit)
RECURSIVE Digits(_)
Digits(ticks) ==
    IF ticks = <<>> THEN <<>> ELSE <<Head(ticks).digit>> \o Digits(Tail(ticks))

\* Array.prototype.slice(-n) for n > 0: the last n elements
SliceLast(seq, n) == SubSeq(seq, (IF Len(seq) < n THEN 0 ELSE Len(seq) - n) + 1, Len(seq))

\* the subscribe effect got the response of getTicksHistory(symbol, tickCount),
\* of at most tickCount prices. historicalTicks.reverse() reverses the array
\* in place and returns it: the slice(-20) and the read of the last element
\* that follow are of the reversed array
HistoryLoaded(prices) ==
    /\ LET historicalTicks == Reverse([i \in 1..Len(prices) |-> TickOf(prices[i])])
           recent == SliceLast(historicalTicks, RecentLength)
       IN  /\ tickHistory' = historicalTicks
           /\ recentTicks' = Digits(recent)
           /\ displayedPrice' = IF Len(historicalTicks) > 0
                                THEN ToFixed(historicalTicks[Len(historicalTicks)].price, 3)
                                ELSE displayedPrice
    /\ panelLast' = [op |-> "history", dropped |-> 0, market |-> selectedMarket]
    /\ UNCHANGED <<tickCount, selectedMarket>>
    /\ StatsEffect

\* the history bootstrap alone, with any response
LoadHistory(prices) ==
    /\ ~FirstRender
    /\ Len(prices) <= tickCount
    /\ HistoryLoaded(prices)
    /\ UNCHANGED <<feedVars, selectVars, tradingVars, quote, indicatorProps, evaluated, updates, positions, currentPrice,
                   totalProfitLoss>>

NextPanel ==
    \/ MountEffect
    \/ \E q \in PanelQuotes : HandleTickData(q, MaxPanelTicks)
    \/ \E value \in Entered : SetTickCount(value)
    \/ \E market \in MarketOptions : SetSelectedMarket(market)
    \/ ResetClick
    \/ \E prices \in Histories : LoadHistory(prices)

\* the digit panel with its ticks input, market select, reset button and history
SpecPanel == Init /\ [][NextPanel]_vars

(* ------------------------- the trade indicators ----------------------- *)

\* an optional field: absent (undefined) or present with a value
None == <<>>
Some(x) == <<x>>

\* the values of TradePosition.prediction, and one that is none of them
Predictions ==
    {"RISE", "FALL", "HIGHER", "LOWER", "OVER", "UNDER", "EVEN", "ODD", "MATCHES", "DIFFERS", "TOUCH"}

\* prices, counted in 0.00001: 99.9993, 100.000, 100.0005, 100.0007, 100.007
Prices == {9999930, 10000000, 10000050, 10000070, 10000700}

\* the trades given to the indicators: every prediction, without barrier or
\* with barrier 5 or 7, entered at 100.000, open or settled,
\* not yet evaluated or evaluated before at 100.000
Trades ==
    [id : {"t1"},
     prediction : Predictions,
     barrier : {None, Some(5), Some(7)},
     entryPrice : {10000000},
     stake : {10},
     payout : {19},
     status : {"OPEN", "WON"},
     currentPrice : {None, Some(10000000)},
     isWinning : {None, Some(TRUE), Some(FALSE)}]

\* a last digit taken without the scaling
UnscaledLastDigit(price) == price % 10

\* Math.floor((price * 10000) % 10): with the price counted in 0.00001 the
\* product is price / 10, and the floor of its remainder by 10 is this
ScaledLastDigit(price) == (price \div 10) % 10

\* calculateIsWinning(trade, price)
calculateIsWinning(trade, price) ==
    CASE trade.prediction \in {"RISE", "HIGHER"} -> price > trade.entryPrice
      [] trade.prediction \in {"FALL", "LOWER"} -> price < trade.entryPrice
      [] trade.prediction = "OVER" ->
            IF trade.barrier # None THEN ScaledLastDigit(price) > trade.barrier[1] ELSE FALSE
      [] trade.prediction = "UNDER" ->
            IF trade.barrier # None THEN ScaledLastDigit(price) < trade.barrier[1] ELSE FALSE
      [] trade.prediction = "EVEN" -> ScaledLastDigit(price) % 2 = 0
      [] trade.prediction = "ODD" -> ScaledLastDigit(price) % 2 = 1
      [] trade.prediction = "MATCHES" ->
            IF trade.barrier # None THEN ScaledLastDigit(price) = trade.barrier[1] ELSE FALSE
      [] trade.prediction = "DIFFERS" ->
            IF trade.barrier # None THEN ScaledLastDigit(price) # trade.barrier[1] ELSE FALSE
      [] OTHER -> FALSE

\* the updatedTrade of the effect: {...trade, currentPrice, isWinning}
UpdatedTrade(trade, price) ==
    [trade EXCEPT !.currentPrice = Some(price),
                  !.isWinning = Some(calculateIsWinning(trade, price))]

\* trade.isWinning !== isWinning || trade.currentPrice !== currentPrice
TradeChanged(trade, price) ==
    \/ trade.isWinning # Some(calculateIsWinning(trade, price))
    \/ trade.currentPrice # Some(price)

\* getTradeProfit(trade) of the profit and loss panel
getTradeProfit(trade) ==
    IF trade.status = "OPEN"
    THEN (IF trade.isWinning = Some(TRUE) THEN trade.payout - trade.stake ELSE 0 - trade.stake)
    ELSE IF trade.status = "WON" THEN trade.payout - trade.stake
    ELSE 0 - trade.stake

\* a second trade of the list: an even and odd trade entered at 100.000, open
\* (evaluated before at 100.000 as winning, or not yet), won or lost
SecondTrades ==
    [id : {"t2"},
     prediction : {"EVEN"},
     barrier : {None},
     entryPrice : {10000000},
     stake : {10},
     payout : {19},
     status : {"OPEN", "WON", "LOST"},
     currentPrice : {None, Some(10000000)},
     isWinning : {None, Some(TRUE)}]

\* the trades prop: one trade, or a rise trade not yet given a price and a
\* second trade
TradeLists ==
    {<<trade>> : trade \in Trades}
        \cup {<<first, second>> :
                  first \in {t \in Trades : /\ t.prediction = "RISE"
                                             /\ t.barrier = None
                                             /\ t.currentPrice = None},
                  second \in SecondTrades}

\* a map that updates every trade, whatever its status
MapAllTrades(trade, price) == UpdatedTrade(trade, price)

\* the body of trades.map: an open trade is replaced by its updatedTrade, any
\* other trade is returned as it is
MapTrade(trade, price) ==
    IF trade.status = "OPEN" THEN UpdatedTrade(trade, price) ELSE trade

\* a notification of every open trade, changed or not
NotifiedAlways(trade, price) == trade.status = "OPEN"

\* whether the body of trades.map calls onTradeUpdate for the trade
Notified(trade, price) == trade.status = "OPEN" /\ TradeChanged(trade, price)

\* the updatedTrade of every trade of ts that onTradeUpdate is called with, in order
RECURSIVE Notifications(_, _)
Notifications(ts, price) ==
    IF ts = <<>>
    THEN <<>>
    ELSE (IF Notified(Head(ts), price) THEN <<UpdatedTrade(Head(ts), price)>> ELSE <<>>)
             \o Notifications(Tail(ts), price)

\* the effect of TradeIndicators run with the trades ts and the current price:
\* every open trade is evaluated and, when it changed, passed to onTradeUpdate;
\* setActiveTrades(updatedTrades)
TradeTick(ts, price) ==
    /\ indicatorProps' = [trades |-> ts, currentPrice |-> price]
    /\ evaluated' = [i \in 1..Len(ts) |-> MapTrade(ts[i], price)]
    /\ updates' = Notifications(ts, price)
    /\ UNCHANGED <<feedVars, selectVars, tradingVars, quote, windowVars, shownVars, positions, currentPrice, totalProfitLoss>>

\* the effect runs when the trades prop changes and when the currentPrice
\* prop changes
NextEval ==
    \/ \E ts \in TradeLists : TradeTick(ts, indicatorProps.currentPrice)
    \/ \E price \in Prices : TradeTick(indicatorProps.trades, price)

\* the trade indicators given trades and prices
SpecEval == Init /\ [][NextEval]_vars

(* ----------------------- the profit and loss panel -------------------- *)

\* the positions of the manager: a digit trade with stake 10 or 25 and payout
\* 19, open (not evaluated, winning or losing), won or lost
TrackedPositions ==
    [id : {"t1"},
     prediction : {"OVER"},
     barrier : {Some(5)},
     entryPrice : {10000000},
     stake : {10, 25},
     payout : {19},
     status : {"OPEN", "WON", "LOST"},
     currentPrice : {None},
     isWinning : {None, Some(TRUE), Some(FALSE)}]

\* the prices of the ticks the panel is rendered with: 100.000, 100.007
PanelPrices == {10000000, 10000700}

\* what the body of positions.forEach adds to total for one trade
Contribution(trade) ==
    IF trade.status = "OPEN"
    THEN (IF trade.isWinning = Some(TRUE) THEN trade.payout - trade.stake ELSE 0 - trade.stake)
    ELSE IF trade.status = "WON" THEN trade.payout - trade.stake
    ELSE IF trade.status = "LOST" THEN 0 - trade.stake
    ELSE 0

\* positions.forEach(trade => ...) started with total
RECURSIVE Accumulate(_, _)
Accumulate(total, ps) ==
    IF ps = <<>> THEN total ELSE Accumulate(total + Contribution(Head(ps)), Tail(ps))

\* an effect that adds to the total it had
TotalEffectAccumulating(previous, ps) == Accumulate(previous, ps)

\* the effect on [positions, currentPrice]: let total = 0, the loop, setTotalProfitLoss(total)
TotalEffect(previous, ps) == Accumulate(0, ps)

\* the manager tracks a new position; the effect runs
ManagerAdd(position) ==
    /\ Len(positions) < MaxPositions
    /\ positions' = Append(positions, position)
    /\ totalProfitLoss' = TotalEffect(totalProfitLoss, positions')
    /\ UNCHANGED <<feedVars, selectVars, tradingVars, quote, windowVars, shownVars, indicatorProps, evaluated, updates, currentPrice>>

\* the manager replaces position i (a new isWinning, a settlement); the effect runs
ManagerUpdate(i, position) ==
    /\ i \in 1..Len(positions)
    /\ position # positions[i]
    /\ position.stake = positions[i].stake
    /\ positions' = [positions EXCEPT ![i] = position]
    /\ totalProfitLoss' = TotalEffect(totalProfitLoss, positions')
    /\ UNCHANGED <<feedVars, selectVars, tradingVars, quote, windowVars, shownVars, indicatorProps, evaluated, updates, currentPrice>>

\* a tick changes the currentPrice prop; the effect runs
PanelTick(price) ==
    /\ price # currentPrice
    /\ currentPrice' = price
    /\ totalProfitLoss' = TotalEffect(totalProfitLoss, positions)
    /\ UNCHANGED <<feedVars, selectVars, tradingVars, quote, windowVars, shownVars, indicatorProps, evaluated, updates, positions>>

NextPnl ==
    \/ \E position \in TrackedPositions : ManagerAdd(position)
    \/ \E i \in 1..MaxPositions, position \in TrackedPositions : ManagerUpdate(i, position)
    \/ \E price \in PanelPrices : PanelTick(price)

\* the profit and loss panel over the positions of the manager
SpecPnl == Init /\ [][NextPnl]_vars

(* ------------------------- the subscribe effect ----------------------- *)

\* the options of the index select the inputs use
IndexOptions == {"Volatility 10 Index", "Volatility 25 Index"}

SYMBOL_MAP == [index \in IndexOptions |->
                 IF index = "Volatility 10 Index" THEN "R_10" ELSE "R_25"]

\* the feed of the inputs: every quote of R_10 is 1 and every quote of R_25 is
\* 7, and the history of a symbol is one price
FeedQuote(symbol) == IF symbol = "R_10" THEN <<"1">> ELSE <<"7">>

FeedHistory(symbol) == <<FeedQuote(symbol)>>

\* a run of the async subscribeToTicks of the effect: it waits for the
\* connection, awaits getTicksHistory (its call), or has ended
Run(symbol, at, call) == [symbol |-> symbol, at |-> at, call |-> call]

\* a dependency of the subscribe effect changed since it ran last
EffectDue == effectDeps # <<selectedIndex, subscriptionId>>

\* the await of run i on getTicksHistory is over: its promise is resolved
Resumable(i) ==
    IF effectRuns[i].at = "history" THEN calls[effectRuns[i].call].outcome = "resolved" ELSE FALSE

\* React renders and runs the effects, and the continuation of a settled await
\* runs, before the next event is handled
Busy == EffectDue \/ \E i \in 1..Len(effectRuns) : Resumable(i)

\* onChange of the index select: setSelectedIndex(e.target.value), while fewer
\* than maxRuns runs of the effect have started
SelectIndex(index, maxRuns) ==
    /\ ~FirstRender
    /\ ~Busy
    /\ Len(effectRuns) < maxRuns
    /\ index # selectedIndex
    /\ selectedIndex' = index
    /\ UNCHANGED <<subscriptionId, effectDeps, effectRuns>>
    /\ UNCHANGED <<feedVars, quote, windowVars, shownVars, tradingVars, indicatorProps, evaluated,
                   updates, positions, currentPrice, totalProfitLoss>>

\* getTicksHistory(symbol, tickCount) on an open transport, with the registry
\* as the unsubscribe calls before it left it
SendHistoryRequest(subs, symbol) ==
    /\ subscriptions' = MapSet(subs, HistoryRequestId(symbol, Len(calls) + 1),
                               HistoryCallback(Len(calls) + 1))
    /\ responses' = responses \cup {<<ws, Len(calls) + 1>>}
    /\ calls' = Append(calls, Call(symbol, "pending", HistoryTimeout))

\* the subscribe effect after a render that changed selectedIndex or
\* subscriptionId (and after the first render): the cleanup of the effect that
\* ran before, with the subscriptionId of its render, then the effect, up to
\* its await of getTicksHistory or of the connection
SubscribeEffect ==
    /\ ~FirstRender
    /\ EffectDue
    /\ LET symbol == SYMBOL_MAP[selectedIndex]
           cleaned == IF effectDeps = <<>> THEN <<>> ELSE effectDeps[2]
           ids == {cleaned, subscriptionId} \ {<<>>}
           subs == {e \in subscriptions : e[1] \notin ids}
       IN  /\ serverSubs' = IF ids = {} THEN serverSubs
                            ELSE IF NotConnected THEN serverSubs
                            ELSE {x \in serverSubs : x[1] # ws}
           /\ latest' = [s \in FeedSymbols |-> IF TickKey(s) \in ids THEN "none" ELSE latest[s]]
           /\ IF NotConnected
              THEN /\ subscriptions' = subs
                   /\ effectRuns' = Append(effectRuns, Run(symbol, "waiting", 0))
                   /\ UNCHANGED <<calls, responses>>
              ELSE /\ SendHistoryRequest(subs, symbol)
                   /\ effectRuns' = Append(effectRuns, Run(symbol, "history", Len(calls) + 1))
    /\ effectDeps' = <<selectedIndex, subscriptionId>>
    /\ last' = Internal
    /\ UNCHANGED <<selectedIndex, subscriptionId>>
    /\ UNCHANGED <<sock, ws, reconnectAttempts, reconnectTimers, delayLog, handles, streamVars,
                   connectCalls>>
    /\ UNCHANGED <<quote, windowVars, shownVars, tradingVars, indicatorProps, evaluated, updates,
                   positions, currentPrice, totalProfitLoss>>

\* run i waited for the connection and finds it open: getTicksHistory
EffectConnected(i) ==
    /\ ~Busy
    /\ effectRuns[i].at = "waiting"
    /\ ~NotConnected
    /\ SendHistoryRequest(subscriptions, effectRuns[i].symbol)
    /\ effectRuns' = [effectRuns EXCEPT ![i].at = "history", ![i].call = Len(calls) + 1]
    /\ last' = Internal
    /\ UNCHANGED <<selectedIndex, subscriptionId, effectDeps>>
    /\ UNCHANGED <<sock, ws, reconnectAttempts, reconnectTimers, serverSubs, delayLog, latest,
                   handles, streamVars, connectCalls>>
    /\ UNCHANGED <<quote, windowVars, shownVars, tradingVars, indicatorProps, evaluated, updates,
                   positions, currentPrice, totalProfitLoss>>

\* the demo data of the catch block: 20 digits and a price that Math.random gives
DemoTicks == {[i \in 1..RecentLength |-> 0], [i \in 1..RecentLength |-> 9]}

DemoPrices == {<<"5", "0", "0", "0", ".", "0", "0", "0">>, <<"5", "9", "9", "9", ".", "9", "9", "9">>}

\* run i waited ten times for the connection and it is not open: the throw
\* and the catch block
EffectGaveUp(i) ==
    /\ ~Busy
    /\ effectRuns[i].at = "waiting"
    /\ NotConnected
    /\ effectRuns' = [effectRuns EXCEPT ![i].at = "failed"]
    /\ \E demo \in DemoTicks : recentTicks' = demo
    /\ \E price \in DemoPrices : displayedPrice' = price
    /\ UNCHANGED <<selectedIndex, subscriptionId, effectDeps>>
    /\ UNCHANGED <<feedVars, quote, windowVars, tradingVars, indicatorProps, evaluated, updates,
                   positions, currentPrice, totalProfitLoss>>

\* run i after its await of getTicksHistory, with the response that resolved
\* its promise: the history bootstrap, subscribeToTicks(symbol, handleTickData)
\* on the open transport, setSubscriptionId
EffectResumed(i) ==
    /\ Resumable(i)
    /\ ~NotConnected
    /\ LET symbol == effectRuns[i].symbol
           answered == calls[calls[effectRuns[i].call].data].symbol
       IN  /\ HistoryLoaded(FeedHistory(answered))
           /\ subscriptions' = MapSet(subscriptions, TickKey(symbol), "handleTickData")
           /\ serverSubs' = serverSubs \cup {<<ws, symbol>>}
           /\ handles' = handles \cup {symbol}
           /\ latest' = [latest EXCEPT ![symbol] = "handleTickData"]
           /\ subscriptionId' = TickKey(symbol)
    /\ effectRuns' = [effectRuns EXCEPT ![i].at = "done"]
    /\ last' = Internal
    /\ UNCHANGED <<selectedIndex, effectDeps>>
    /\ UNCHANGED <<sock, ws, reconnectAttempts, reconnectTimers, calls, responses, delayLog,
                   streamVars, connectCalls>>
    /\ UNCHANGED <<quote, tradingVars, indicatorProps, evaluated, updates, positions, currentPrice,
                   totalProfitLoss>>

\* ws.onmessage with a tick of a symbol the feed streams: the callback under
\* `tick_${symbol}` is handleTickData
PanelTickMessage(symbol, maxLen) ==
    /\ ~Busy
    /\ <<ws, symbol>> \in serverSubs
    /\ sock[ws] = "OPEN"
    /\ MapHas(subscriptions, TickKey(symbol))
    /\ HandleTickData(FeedQuote(symbol), maxLen)

NextSelect ==
    \/ MountEffect
    \/ SubscribeEffect
    \/ \E i \in 1..Len(effectRuns) : EffectResumed(i)
    \/ \E index \in IndexOptions : SelectIndex(index, MaxEffectRuns)
    \/ \E i \in 1..Len(effectRuns) : EffectConnected(i)
    \/ \E i \in 1..Len(effectRuns) : EffectGaveUp(i)
    \/ \E s \in SockIds : ~Busy /\ OnOpen(s)
    \/ \E r \in responses : ~Busy /\ HistoryMessage(r)
    \/ \E symbol \in FeedSymbols : PanelTickMessage(symbol, MaxSelectTicks)

\* the digit panel with its index select, over the client and a feed that
\* answers every request
SpecSelect == Init /\ [][NextSelect]_vars

(* ----------------------- the manual trading panel --------------------- *)

\* the state of the panel that the trading panel leaves alone
otherPanelVars == <<quote, windowVars, shownVars, selectVars, indicatorProps, evaluated, updates,
                    positions, currentPrice, totalProfitLoss>>

\* the two trade buttons
ContractSides == {"primary", "secondary"}

\* what getMultipleProposals resolves with: both proposals, or none
ProposalResults == {ContractSides, {}}

\* the proposals effect after a render that changed one of its dependencies:
\* its cleanup clears the pending timer, the effect sets a new one
ProposalsEffect == debounceTimer' = TRUE

\* onClick of the + button of the stake: setStake(stake + 1), while the stake
\* is less than maxSteps above the initial one
StakePlus(maxSteps) ==
    /\ stake < InitialStake + 100 * maxSteps
    /\ stake' = stake + 100
    /\ ProposalsEffect
    /\ UNCHANGED <<isLoading, proposals, proposalFetches, tradeRequests>>
    /\ UNCHANGED <<feedVars, otherPanelVars>>

\* Math.max(0.35, stake - 1), in hundredths
StakeLess(value) == IF value - 100 < 35 THEN 35 ELSE value - 100

\* onClick of the - button of the stake: a stake that stays the same leaves
\* the dependencies of the effect as they are
StakeMinus ==
    /\ stake' = StakeLess(stake)
    /\ IF stake' # stake THEN ProposalsEffect ELSE UNCHANGED debounceTimer
    /\ UNCHANGED <<isLoading, proposals, proposalFetches, tradeRequests>>
    /\ UNCHANGED <<feedVars, otherPanelVars>>

\* the debounce timer fires: getProposals up to its await, while fewer than
\* maxFetches of its runs wait for their answer
GetProposals(maxFetches) ==
    /\ debounceTimer
    /\ proposalFetches < maxFetches
    /\ debounceTimer' = FALSE
    /\ isLoading' = TRUE
    /\ proposalFetches' = proposalFetches + 1
    /\ UNCHANGED <<proposals, stake, tradeRequests>>
    /\ UNCHANGED <<feedVars, otherPanelVars>>

\* getMultipleProposals resolves: setProposals, then the finally block
ProposalsResolved(result) ==
    /\ proposalFetches > 0
    /\ proposalFetches' = proposalFetches - 1
    /\ proposals' = result
    /\ isLoading' = FALSE
    /\ UNCHANGED <<stake, debounceTimer, tradeRequests>>
    /\ UNCHANGED <<feedVars, otherPanelVars>>

\* getMultipleProposals rejects: the catch block, then the finally block
ProposalsRejected ==
    /\ proposalFetches > 0
    /\ proposalFetches' = proposalFetches - 1
    /\ proposals' = {}
    /\ isLoading' = FALSE
    /\ UNCHANGED <<stake, debounceTimer, tradeRequests>>
    /\ UNCHANGED <<feedVars, otherPanelVars>>

\* disabled={isLoading || !proposals[side]}
ButtonDisabled(side) == isLoading \/ side \notin proposals

\* onClick of a trade button that is not disabled: executeTrade(side) up to its
\* await, while fewer than maxTrades of its runs wait for their answer
ExecuteTrade(side, maxTrades) ==
    /\ ~ButtonDisabled(side)
    /\ tradeRequests < maxTrades
    /\ side \in proposals
    /\ isLoading' = TRUE
    /\ tradeRequests' = tradeRequests + 1
    /\ UNCHANGED <<proposals, stake, debounceTimer, proposalFetches>>
    /\ UNCHANGED <<feedVars, otherPanelVars>>

\* manualTradingService.executeTrade resolves or rejects: the rest of the try
\* block or the catch block, then the finally block
TradeSettled ==
    /\ tradeRequests > 0
    /\ tradeRequests' = tradeRequests - 1
    /\ isLoading' = FALSE
    /\ UNCHANGED <<proposals, stake, debounceTimer, proposalFetches>>
    /\ UNCHANGED <<feedVars, otherPanelVars>>

NextTrade ==
    \/ StakePlus(MaxStakeSteps)
    \/ StakeMinus
    \/ GetProposals(MaxFetches)
    \/ \E result \in ProposalResults : ProposalsResolved(result)
    \/ ProposalsRejected
    \/ \E side \in ContractSides : ExecuteTrade(side, MaxTrades)
    \/ TradeSettled

\* the manual trading panel with a valid symbol, after its first render and
\* its effects
SpecTrade == Init /\ [][NextTrade]_vars

(* ------------------------------- claims ------------------------------- *)

\* the symbols the validation of getTicksHistory is to refuse
InvalidInputs == {"", "na", "undefined", "null"}

\* this.ws is a transport in the OPEN state
TransportOpen == IF ws = 0 THEN FALSE ELSE sock[ws] = "OPEN"

\* the closure of call c is in the registry
Registered(c) == \E e \in subscriptions : e[1][1] = "history" /\ e[2] = <<"resolve", c>>

\* reconnect() found the retry budget used up: no transport, no timer, counter at the cap
Exhausted ==
    /\ reconnectAttempts >= maxReconnectAttempts
    /\ Len(reconnectTimers) = 0
    /\ \A s \in SockIds : sock[s] = "FREE"

ApiCall == last.op \in {"getTicksHistory", "subscribeToTicks"}

\* C1: every getTicksHistory call settles exactly once: a call rejected at once
\* is settled, and a call whose request was sent is settled at the latest when
\* its own 10000 ms timer has fired (afterwards no handler is left to settle it).
C1_SettlesOnce ==
    /\ last.op = "getTicksHistory" => last.result \in {"pending", ErrNotConnected, ErrInvalidSymbol}
    /\ \A c \in 1..Len(calls) : calls[c].timer = -1 => calls[c].outcome # "pending"

\* C2: a sent request fails with the timeout only when its own timer is due,
\* and the timer of an earlier call neither removes nor fails a later call's
\* pending request whose own deadline has not come.
C2_OwnDeadline ==
    [][\A c \in 1..Len(calls) :
          /\ (calls[c].outcome = "pending" /\ calls'[c].outcome = ErrTimeout) => calls[c].timer = 0
          /\ \A d \in 1..(c - 1) :
                (calls[d].timer = 0 /\ calls'[d].timer = -1 /\ calls[c].timer > 0)
                    => /\ Registered(c) => Registered(c)'
                       /\ calls'[c].outcome = calls[c].outcome]_vars

\* C3: a history response resolves only the request it answers: a resolved
\* call was resolved with the data of its own response.
C3_OwnResponse ==
    \A c \in 1..Len(calls) : calls[c].outcome = "resolved" => calls[c].data = c

\* C4: getTicksHistory with a symbol that fails validation sends nothing and
\* adds no entry to the registry, whatever the state of the connection.
C4_InvalidSendsNothing ==
    [][(last'.op = "getTicksHistory" /\ last'.symbol \in InvalidInputs)
          => /\ last'.sent = {}
             /\ subscriptions' = subscriptions
             /\ responses' = responses
             /\ calls' = calls]_vars

C4_Witness ==
    /\ last.op = "getTicksHistory"
    /\ last.symbol = ""
    /\ TransportOpen
    /\ subscriptions # {}

\* C5 as claimed: getTicksHistory with a symbol that fails validation is
\* rejected with the invalid-symbol error in every state of the connection.
C5_InvalidSymbolAlways ==
    (last.op = "getTicksHistory" /\ last.symbol \in InvalidInputs)
        => last.result = ErrInvalidSymbol

\* C5 as amended: getTicksHistory with a symbol that fails validation is
\* rejected at once, with the invalid-symbol error when the transport is open
\* and with the not-connected error when it is not.
C5_InvalidSymbolWhenOpen ==
    (last.op = "getTicksHistory" /\ last.symbol \in InvalidInputs)
        => last.result = IF TransportOpen THEN ErrInvalidSymbol ELSE ErrNotConnected

C5_Witness ==
    /\ last.op = "getTicksHistory"
    /\ last.symbol = "na"
    /\ TransportOpen
    /\ last.result = ErrInvalidSymbol

\* C6: the k-th delay given to setTimeout by reconnect() since the last
\* successful open is base * k (1000, 2000, 3000 for three failures in a row),
\* the count starting again at 1 after an open; no pending reconnect timer
\* has more than that left.
C6_LinearBackoff ==
    /\ Len(delayLog) = reconnectAttempts
    /\ \A k \in 1..Len(delayLog) : delayLog[k] = 1000 * k
    /\ \A i \in 1..Len(reconnectTimers) : reconnectTimers[i] <= 1000 * reconnectAttempts
    /\ TransportOpen => delayLog = <<>>

C6_Witness ==
    /\ delayLog = <<1000, 2000, 3000>>
    /\ reconnectTimers = <<3000>>

\* C7: the retry counter never exceeds the cap of 5; once the budget is used
\* up nothing is scheduled and no transport is made any more; and when every
\* connection attempt fails (from some point on no transport opens and every
\* connecting one closes) that terminal state is reached.
C7_TerminalDisconnect ==
    /\ [](reconnectAttempts <= 5)
    /\ [][Exhausted => (Exhausted' /\ sock' = sock /\ reconnectTimers' = reconnectTimers
                        /\ reconnectAttempts' = reconnectAttempts)]_vars
    /\ (<>[](\A s \in SockIds : sock[s] # "OPEN") /\ []<>(\A s \in SockIds : sock[s] # "CONNECTING"))
          => <>[]Exhausted

C7_Witness ==
    /\ Exhausted
    /\ reconnectAttempts = 5
    /\ last.op = "internal"

\* C8: once the retry budget is used up, every subscribeToTicks and every
\* getTicksHistory call is rejected with the connectivity error of the class
\* ('WebSocket not connected', the error the specification names ReconnectExhausted).
C8_ExhaustedRejects ==
    (Exhausted /\ ApiCall) => last.result = ErrNotConnected

C8_Witness ==
    /\ Exhausted
    /\ ws # 0
    /\ last.op = "subscribeToTicks"
    /\ last.result = ErrNotConnected

\* C9 as claimed: a call made while retries are left (the transport connecting
\* or a reconnect timer pending) is not rejected with the connectivity error.
C9_NoErrorBeforeExhaustion ==
    (ApiCall /\ ~Exhausted) => last.result # ErrNotConnected

\* C9 as amended: a call is rejected with the connectivity error exactly when
\* the transport is not open at the call, whether or not retries are left; the
\* errors callers see are that one, the invalid-symbol error and the timeout.
C9_ErrorIffNotOpen ==
    /\ ApiCall => (last.result = ErrNotConnected <=> ~TransportOpen)
    /\ ApiCall => last.result \in {"pending", "resolved", ErrNotConnected, ErrInvalidSymbol}
    /\ \A c \in 1..Len(calls) : calls[c].outcome \in {"pending", "resolved", ErrTimeout}

C9_Witness ==
    /\ last.op = "subscribeToTicks"
    /\ last.result = ErrNotConnected
    /\ reconnectAttempts = 2
    /\ Len(reconnectTimers) = 1

\* C10: the registry holds at most one entry per key, and a tick message
\* runs exactly the callback of the latest subscribeToTicks for its symbol
\* (none once unsubscribed).
C10_OnePerKey ==
    /\ \A e \in subscriptions, f \in subscriptions : e[1] = f[1] => e = f
    /\ last.op = "tick" =>
          last.invoked = {latest[last.symbol]} \ {"none"}
    /\ last.op = "subscribeToTicks" /\ last.result = "resolved" =>
          MapGet(subscriptions, TickKey(last.symbol)) = {latest[last.symbol]}

C10_Witness ==
    /\ last.op = "subscribeToTicks"
    /\ last.replaced = {"cbA"}
    /\ MapGet(subscriptions, TickKey(last.symbol)) = {"cbB"}
    /\ \E e \in subscriptions : e[1] = <<"history", last.symbol>>

\* a tick arrived while its symbol had a subscriber
Subscribed(a) == a[3] # "none"

\* C11: after unsubscribe the registry has no entry under the handle, and a
\* tick of the symbol that arrives later, before a new subscribeToTicks, runs
\* no callback.
C11_UnsubscribeStops ==
    /\ last.op = "unsubscribe" => ~\E e \in subscriptions : e[1] = <<"tick", last.symbol>>
    /\ \A symbol \in FeedSymbols :
          latest[symbol] = "none" => ~\E e \in subscriptions : e[1] = <<"tick", symbol>>
    /\ \A i \in 1..Len(arrived) :
          ~Subscribed(arrived[i]) =>
              \A j \in 1..Len(delivered) : delivered[j][2] # arrived[i][2]

\* a tick ran the callback, then the symbol was unsubscribed, then a tick that
\* was in flight arrived and ran nothing
C11_Witness ==
    /\ last.op = "tick"
    /\ last.invoked = {}
    /\ Len(arrived) = 2
    /\ arrived[1][1] = arrived[2][1]
    /\ arrived[1][3] = "cbA"
    /\ arrived[2][3] = "none"
    /\ delivered = << <<arrived[1][1], arrived[1][2], "cbA">> >>

\* C12: an unsubscribe call that finds its handle gone from the registry (a
\* second or later call with the handle) sends nothing over the transport and
\* changes neither the registry nor the streams of the feed.
C12_SecondCallNoOp ==
    [][(last'.op = "unsubscribe" /\ last'.replaced = {})
          => /\ last'.sent = {}
             /\ subscriptions' = subscriptions
             /\ serverSubs' = serverSubs]_vars

\* C13: the ticks of the feed arrive in the order sent, and the callback
\* invocations are exactly the ticks that arrived while their symbol had a
\* subscriber, each once, in the order of arrival, with that subscriber.
C13_InOrderOnce ==
    /\ \A i \in 1..Len(arrived), j \in 1..Len(arrived) : i < j => arrived[i][2] < arrived[j][2]
    /\ delivered = SelectSeq(arrived, Subscribed)

C13_Witness ==
    /\ delivered = << <<"R_10", 1, "cbA">>, <<"R_10", 2, "cbA">> >>
    /\ last.op = "tick"

CharDigit ==
    ("0" :> 0) @@ ("1" :> 1) @@ ("2" :> 2) @@ ("3" :> 3) @@ ("4" :> 4) @@
    ("5" :> 5) @@ ("6" :> 6) @@ ("7" :> 7) @@ ("8" :> 8) @@ ("9" :> 9)

\* q is the decimal string of a price: digits, or digits, a point and digits
IsDecimal(q) ==
    /\ Len(q) > 0
    /\ \A i \in 1..Len(q) : q[i] \in DOMAIN CharDigit \cup {"."}
    /\ Cardinality({i \in 1..Len(q) : q[i] = "."}) <= 1
    /\ q[1] # "."
    /\ q[Len(q)] # "."

\* C16: the digit of the tick made from a quote is the last digit of the
\* quote's decimal string as the feed sent it (7054.231 gives 1, 100.00 gives
\* 0), also when the string ends in zeros after the point.
C16_LiteralLastDigit ==
    (tickHistory # <<>> /\ IsDecimal(quote))
        => tickHistory[1].digit = CharDigit[quote[Len(quote)]]

\* C17: every tick in the window has a digit from 0 to 9, and the digit is 0
\* when the string of the price ends in a character that is not a digit (the
\* price is NaN).
C17_DigitInRange ==
    \A i \in 1..Len(tickHistory) :
        /\ tickHistory[i].digit \in 0..9
        /\ tickHistory[i].price.nan => tickHistory[i].digit = 0

C17_Witness ==
    /\ quote = <<"x", "7">>
    /\ Len(tickHistory) = 1
    /\ tickHistory[1].price.nan
    /\ tickHistory[1].digit = 0

\* floor((price * 10^4) mod 10) of a price counted in 0.00001
TableDigit(price) == (price \div 10) % 10

\* the table of winning conditions
TableWinning(u, price) ==
    \/ u.prediction \in {"RISE", "HIGHER"} /\ price > u.entryPrice
    \/ u.prediction \in {"FALL", "LOWER"} /\ price < u.entryPrice
    \/ u.prediction = "OVER" /\ u.barrier # <<>> /\ \E b \in 0..9 : u.barrier = <<b>> /\ TableDigit(price) > b
    \/ u.prediction = "UNDER" /\ u.barrier # <<>> /\ \E b \in 0..9 : u.barrier = <<b>> /\ TableDigit(price) < b
    \/ u.prediction = "EVEN" /\ TableDigit(price) \in {0, 2, 4, 6, 8}
    \/ u.prediction = "ODD" /\ TableDigit(price) \in {1, 3, 5, 7, 9}
    \/ u.prediction = "MATCHES" /\ u.barrier # <<>> /\ \E b \in 0..9 : u.barrier = <<b>> /\ TableDigit(price) = b
    \/ u.prediction = "DIFFERS" /\ u.barrier # <<>> /\ \E b \in 0..9 : u.barrier = <<b>> /\ TableDigit(price) # b

\* C18: the isWinning of an evaluated open trade is the entry of the table for
\* its prediction: RISE and HIGHER price above entry, FALL and LOWER below,
\* OVER, UNDER, MATCHES, DIFFERS the scaled last digit against the barrier and
\* never winning without barrier, EVEN and ODD its parity, any other
\* prediction not winning.
C18_WinningTable ==
    \A i \in 1..Len(evaluated) :
        evaluated[i].status = "OPEN" =>
            evaluated[i].isWinning = <<TableWinning(evaluated[i], evaluated[i].currentPrice[1])>>

C18_Witness ==
    /\ Len(evaluated) = 1
    /\ evaluated[1].status = "OPEN"
    /\ evaluated[1].prediction = "OVER"
    /\ evaluated[1].barrier = <<5>>
    /\ evaluated[1].currentPrice = <<10000070>>
    /\ evaluated[1].isWinning = <<TRUE>>

\* C19: an open OVER trade with barrier 5 entered at 100.000 and evaluated at
\* the tick 100.007 is winning and its profit is payout - stake.
C19_OverFiveWins ==
    \A i \in 1..Len(evaluated) :
        (/\ evaluated[i].status = "OPEN"
         /\ evaluated[i].prediction = "OVER"
         /\ evaluated[i].barrier = <<5>>
         /\ evaluated[i].entryPrice = 10000000
         /\ evaluated[i].currentPrice = <<10000700>>)
            => /\ evaluated[i].isWinning = <<TRUE>>
               /\ getTradeProfit(evaluated[i]) = evaluated[i].payout - evaluated[i].stake

\* the sum of the contributions of the positions: payout - stake for a won or
\* an open winning one, -stake for a lost or an open one that is not winning
RECURSIVE PositionSum(_)
PositionSum(ps) ==
    IF ps = <<>>
    THEN 0
    ELSE PositionSum(Tail(ps))
         + (IF \/ Head(ps).status = "WON"
               \/ Head(ps).status = "OPEN" /\ Head(ps).isWinning = <<TRUE>>
            THEN Head(ps).payout - Head(ps).stake
            ELSE 0 - Head(ps).stake)

\* C20: the total profit and loss is the sum of the contributions of the
\* positions as they are now, after every tick and every change of the
\* positions: it is computed anew, not added to the total before.
C20_TotalIsSum ==
    totalProfitLoss = PositionSum(positions)

\* two ticks after two positions were tracked: one open and winning, one open
\* and not yet evaluated
C20_Witness ==
    /\ currentPrice = 10000700
    /\ Len(positions) = 2
    /\ positions[1].status = "OPEN" /\ positions[1].isWinning = <<TRUE>> /\ positions[1].stake = 10
    /\ positions[2].status = "OPEN" /\ positions[2].isWinning = <<>> /\ positions[2].stake = 25
    /\ totalProfitLoss = -16


\* C21: no run of the tick effect changes the status of a trade: the trades
\* it leaves are the trades it was given, one for one and with the same ids
\* and statuses, a won or lost trade is left as it was, currentPrice and
\* isWinning included, and a trade passed to onTradeUpdate is a given trade
\* that is still open.
C21_StatusFrame ==
    /\ Len(evaluated) = Len(indicatorProps.trades)
    /\ \A i \in 1..Len(evaluated) :
          /\ evaluated[i].id = indicatorProps.trades[i].id
          /\ evaluated[i].status = indicatorProps.trades[i].status
          /\ indicatorProps.trades[i].status \in {"WON", "LOST"}
                => evaluated[i] = indicatorProps.trades[i]
    /\ \A j \in 1..Len(updates) :
          /\ updates[j].status = "OPEN"
          /\ \E i \in 1..Len(evaluated) : indicatorProps.trades[i].id = updates[j].id

\* the tick 100.007 for an open trade and a lost trade evaluated at 100.000
C21_Witness ==
    /\ Len(indicatorProps.trades) = 2
    /\ indicatorProps.currentPrice = 10000700
    /\ indicatorProps.trades[1].status = "OPEN"
    /\ indicatorProps.trades[2].status = "LOST"
    /\ indicatorProps.trades[2].currentPrice = <<10000000>>
    /\ evaluated[1].currentPrice = <<10000700>>
    /\ evaluated[2].currentPrice = <<10000000>>

\* C22: with a listener given, every open trade gets the tick price as
\* currentPrice and the table's result as isWinning, and it is passed to
\* onTradeUpdate, as updated, exactly when its isWinning or its currentPrice
\* was another before; a won or lost trade is never passed to onTradeUpdate.
C22_UpdateOnChange ==
    \A i \in 1..Len(indicatorProps.trades) :
        IF indicatorProps.trades[i].status = "OPEN"
        THEN /\ evaluated[i].currentPrice = <<indicatorProps.currentPrice>>
             /\ evaluated[i].isWinning
                    = <<TableWinning(indicatorProps.trades[i], indicatorProps.currentPrice)>>
             /\ (\E j \in 1..Len(updates) : updates[j].id = indicatorProps.trades[i].id)
                    <=> \/ indicatorProps.trades[i].isWinning
                              # <<TableWinning(indicatorProps.trades[i], indicatorProps.currentPrice)>>
                        \/ indicatorProps.trades[i].currentPrice # <<indicatorProps.currentPrice>>
             /\ \A j \in 1..Len(updates) :
                    updates[j].id = indicatorProps.trades[i].id => updates[j] = evaluated[i]
        ELSE \A j \in 1..Len(updates) : updates[j].id # indicatorProps.trades[i].id

\* the tick 100.000 for two open trades: the first had no price and is passed
\* on, the second was evaluated at 100.000 as winning and is not
C22_Witness ==
    /\ Len(indicatorProps.trades) = 2
    /\ indicatorProps.currentPrice = 10000000
    /\ indicatorProps.trades[1].status = "OPEN"
    /\ indicatorProps.trades[2].status = "OPEN"
    /\ indicatorProps.trades[2].currentPrice = <<10000000>>
    /\ indicatorProps.trades[2].isWinning = <<TRUE>>
    /\ Len(updates) = 1
    /\ updates[1].id = "t1"


\* the number of ticks the filter of a market keeps, by the pairs of adjacent
\* ticks of the window: every tick for Circles, the pairs of equal digits for
\* Matches, the pairs of different digits for Differs
RunCount(market) ==
    IF market = "Matches"
    THEN Cardinality({i \in 1..(Len(tickHistory) - 1) : tickHistory[i].digit = tickHistory[i + 1].digit})
    ELSE IF market = "Differs"
    THEN Cardinality({i \in 1..(Len(tickHistory) - 1) : tickHistory[i].digit # tickHistory[i + 1].digit})
    ELSE Len(tickHistory)

\* the sum of the ten percentages, in tenths
PercentageSum ==
    digitStats[0].percentage + digitStats[1].percentage + digitStats[2].percentage
        + digitStats[3].percentage + digitStats[4].percentage + digitStats[5].percentage
        + digitStats[6].percentage + digitStats[7].percentage + digitStats[8].percentage
        + digitStats[9].percentage

C24_NothingCounted ==
    (panelLast.op # "render" /\ RunCount(selectedMarket) = 0)
        => \A d \in 0..9 : digitStats[d].count = 0 /\ digitStats[d].percentage = 0

\* a window of three ticks 7, 7, 7 shown for Differs
C24_Witness ==
    /\ Len(tickHistory) = 3
    /\ \A i \in 1..3 : tickHistory[i].digit = 7
    /\ selectedMarket = "Differs"
    /\ panelLast.op = "tick"
    /\ digitStats[7].count = 0


\* the smallest of the digits of ds whose percentage is the largest of ds
FirstMax(ds) ==
    CHOOSE d \in ds :
        \A e \in ds : \/ digitStats[e].percentage < digitStats[d].percentage
                      \/ digitStats[e].percentage = digitStats[d].percentage /\ d <= e

\* the smallest of the digits of ds whose percentage is the smallest of ds
FirstMin(ds) ==
    CHOOSE d \in ds :
        \A e \in ds : \/ digitStats[e].percentage > digitStats[d].percentage
                      \/ digitStats[e].percentage = digitStats[d].percentage /\ d <= e

\* C25: of a window with ticks, the digit flagged highest is the smallest
\* digit with the largest percentage and the one flagged second-highest is
\* first in the same way among the other digits; the digit flagged lowest is
\* the smallest digit with the smallest percentage and the one flagged
\* second-lowest is first in the same way among the other digits; with the
\* counts 5, 5, 3, 3, 2, 2, 1, 1, 0, 0 digit 0 is highest and digit 1
\* second-highest.
C25_StableRanking ==
    /\ tickHistory # <<>> =>
          \A d \in 0..9 :
              /\ digitStats[d].isHighest <=> d = FirstMax(0..9)
              /\ digitStats[d].is2ndHighest <=> d = FirstMax((0..9) \ {FirstMax(0..9)})
              /\ digitStats[d].isLowest <=> d = FirstMin(0..9)
              /\ digitStats[d].is2ndLowest <=> d = FirstMin((0..9) \ {FirstMin(0..9)})
    /\ (/\ tickHistory # <<>>
        /\ [d \in 0..9 |-> digitStats[d].count]
              = [d \in 0..9 |-> <<5, 5, 3, 3, 2, 2, 1, 1, 0, 0>>[d + 1]])
          => digitStats[0].isHighest /\ digitStats[1].is2ndHighest

\* the history whose digits 0 to 9 occur 5, 5, 3, 3, 2, 2, 1, 1, 0, 0 times
C25_Witness ==
    /\ Len(tickHistory) = 22
    /\ selectedMarket = "Circles"
    /\ [d \in 0..9 |-> digitStats[d].count] = [d \in 0..9 |-> <<5, 5, 3, 3, 2, 2, 1, 1, 0, 0>>[d + 1]]
    /\ digitStats[0].isHighest
    /\ digitStats[1].is2ndHighest
    /\ digitStats[8].isLowest
    /\ digitStats[9].is2ndLowest


C27_WindowWithinCapacity ==
    Len(tickHistory) <= tickCount

\* C28: tickCount is always from 100 to 5000: a value entered in the ticks
\* input is clamped into that range before the window or a history request is
\* sized by it.
C28_CapacityInRange ==
    tickCount \in 100..5000


\* C29 as stated: for Matches the ticks counted are those that are not the
\* first to have arrived and whose digit is the digit of the tick that arrived
\* just before (in the window, newest first, the tick at the next index), and
\* the counts are the counts of those ticks.
C29_MatchesPredecessor ==
    selectedMarket = "Matches" =>
        /\ filteredTicks = {i \in 1..Len(tickHistory) :
                               i # Len(tickHistory) /\ tickHistory[i].digit = tickHistory[i + 1].digit}
        /\ \A d \in 0..9 :
              digitStats[d].count = Cardinality({i \in filteredTicks : tickHistory[i].digit = d})

\* C29: for Matches the ticks counted are those that are not the newest of
\* the window and whose digit is the digit of the tick that arrived just
\* after (the tick at the index before); the counts are the counts of those
\* ticks, and they are the numbers of pairs of adjacent ticks with that digit,
\* as the counts of the ticks equal to their predecessor would be.
C29_MatchesSuccessor ==
    selectedMarket = "Matches" =>
        /\ filteredTicks = {i \in 1..Len(tickHistory) :
                               i # 1 /\ tickHistory[i].digit = tickHistory[i - 1].digit}
        /\ \A d \in 0..9 :
              /\ digitStats[d].count = Cardinality({i \in filteredTicks : tickHistory[i].digit = d})
              /\ digitStats[d].count =
                    Cardinality({i \in 1..(Len(tickHistory) - 1) :
                                    tickHistory[i].digit = d /\ tickHistory[i + 1].digit = d})

\* the ticks 1, 1, 7 arrived in this order: the first to arrive is counted
C29_Witness ==
    /\ selectedMarket = "Matches"
    /\ Len(tickHistory) = 3
    /\ tickHistory[1].digit = 7
    /\ tickHistory[2].digit = 1
    /\ tickHistory[3].digit = 1
    /\ filteredTicks = {3}
    /\ digitStats[1].count = 1

\* the number of ticks of the window with digit d
RawCount(d) == Cardinality({i \in 1..Len(tickHistory) : tickHistory[i].digit = d})

\* C30 as stated: when the market is changed from Matches to Differs, every
\* tick of the window is kept by exactly one of the two filters, and the
\* counts of a digit for the two markets add up to the number of ticks of the
\* window with that digit.
C30_Complement ==
    [][(selectedMarket = "Matches" /\ selectedMarket' = "Differs" /\ panelLast'.op = "market") =>
          /\ filteredTicks \cap filteredTicks' = {}
          /\ filteredTicks \cup filteredTicks' = 1..Len(tickHistory)
          /\ \A d \in 0..9 : digitStats[d].count + digitStats'[d].count = RawCount(d)]_vars

\* C30: when the market is changed from Matches to Differs, every tick of the
\* window but the newest is kept by exactly one of the two filters and the
\* newest by neither, and the counts of a digit for the two markets add up to
\* the number of ticks with that digit among the ticks but the newest.
C30_ComplementButNewest ==
    [][(selectedMarket = "Matches" /\ selectedMarket' = "Differs" /\ panelLast'.op = "market") =>
          /\ filteredTicks \cap filteredTicks' = {}
          /\ filteredTicks \cup filteredTicks' = 2..Len(tickHistory)
          /\ \A d \in 0..9 :
                digitStats[d].count + digitStats'[d].count =
                    Cardinality({i \in 2..Len(tickHistory) : tickHistory[i].digit = d})]_vars

\* Differs chosen after Matches for the ticks 1, 1, 7: the tick 1 that arrived
\* second is the one Differs keeps, the newest is kept by neither
C30_Witness ==
    /\ selectedMarket = "Differs"
    /\ panelLast.op = "market"
    /\ panelLast.market = "Matches"
    /\ Len(tickHistory) = 3
    /\ tickHistory[1].digit = 7
    /\ tickHistory[2].digit = 1
    /\ tickHistory[3].digit = 1
    /\ filteredTicks = {2}
    /\ digitStats[1].count = 1
    /\ digitStats[7].count = 0


\* C31: unsubscribe of the subscription of a symbol leaves every other entry
\* of the registry as it was, and the feed goes on streaming the ticks of
\* every other symbol it streamed on the transport.
C31_UnsubscribeOnlyOwn ==
    [][last'.op = "unsubscribe" =>
          /\ {e \in subscriptions' : e[1] # <<"tick", last'.symbol>>}
                = {e \in subscriptions : e[1] # <<"tick", last'.symbol>>}
          /\ \A x \in serverSubs : x[2] # last'.symbol => x \in serverSubs']_vars


\* C32: when a transport opens, the feed streams on it the ticks of every
\* symbol of the feed that has a tick subscription in the registry: a
\* subscribe request was sent on the new transport for each of them.
C32_ResubscribedOnOpen ==
    [][\A s \in SockIds :
          (sock[s] = "CONNECTING" /\ sock'[s] = "OPEN") =>
              \A e \in subscriptions' :
                  (e[1][1] = "tick" /\ e[1][2] \in {"R_10", "R_25"}) => <<s, e[1][2]>> \in serverSubs']_vars

\* the transports that are connecting or open
LiveTransports == {s \in SockIds : sock[s] \in {"CONNECTING", "OPEN"}}

\* C34: at every moment at most one transport is connecting or open, at most
\* one reconnect timer is pending, and there is never a live transport and a
\* pending reconnect timer at once.
C34_OneTransportOrOneTimer ==
    /\ Cardinality(LiveTransports) <= 1
    /\ Len(reconnectTimers) <= 1
    /\ ~(LiveTransports # {} /\ Len(reconnectTimers) > 0)

\* a reconnect timer is pending after the close of the transport this.ws refers
\* to, on the second attempt or a later one
C34_TimerAfterClose ==
    /\ ws \in SockIds
    /\ reconnectAttempts >= 2
    /\ Len(reconnectTimers) = 1
    /\ LiveTransports = {}

\* the digits whose statistics carry a flag
Flagged(flag) == {d \in 0..9 : digitStats[d][flag]}

\* C36: once the statistics are computed, no digit carries a flag of the high
\* side (isHighest, is2ndHighest) and a flag of the low side (isLowest,
\* is2ndLowest), each flag is carried by at most one digit, and no digit
\* carries a flag when no tick of the window passes the filter.
C36_FlagsExclusive ==
    panelLast.op # "render" =>
        /\ (Flagged("isHighest") \cup Flagged("is2ndHighest"))
               \cap (Flagged("isLowest") \cup Flagged("is2ndLowest")) = {}
        /\ \A flag \in {"isHighest", "is2ndHighest", "isLowest", "is2ndLowest"} :
               Cardinality(Flagged(flag)) <= 1
        /\ filteredTicks = {} =>
               \A flag \in {"isHighest", "is2ndHighest", "isLowest", "is2ndLowest"} :
                   Flagged(flag) = {}

\* C35: right after a history of more than 20 prices is loaded, recentTicks
\* holds the digits of the 20 newest ticks of the window, newest first, and the
\* price shown is the price of the newest tick of the window.
C35_BootstrapShowsNewest ==
    (panelLast.op = "history" /\ Len(tickHistory) > 20) =>
        /\ recentTicks = [i \in 1..20 |-> tickHistory[i].digit]
        /\ displayedPrice = ToFixed(tickHistory[1].price, 3)

\* the last digit of every quote of the symbol of the selected index
SelectedDigit == IF selectedIndex = "Volatility 10 Index" THEN 1 ELSE 7

\* C33: every write into the tick window, by a history response or by a live
\* tick, is of the symbol of the index selected then: the newest tick of the
\* window written has the digit of that symbol.
C33_NoStaleWrite ==
    [][(tickHistory' # tickHistory /\ tickHistory' # <<>>) =>
          tickHistory'[1].digit = SelectedDigit]_vars

\* C37: while a trade request waits for its answer isLoading is true, so both
\* trade buttons are disabled, and no second trade request is under way.
C37_LoadingWhileTrading ==
    tradeRequests > 0 => (isLoading /\ tradeRequests = 1)

====
